---- MODULE Spec2Model ----
(***************************************************************************)
(* State-machine model of the visibility tracker: the roadmap file and the *)
(* commands that rewrite it (review CLI, manual CLI, recap runs, automatic *)
(* theme runs, project discovery), and the activity matcher.               *)
(*                                                                         *)
(* Representation choices                                                  *)
(*  - roadmap is the content of data/roadmap.json.  Every command loads    *)
(*    it, mutates the loaded object and rewrites the whole file, so one    *)
(*    action is one command and roadmap' is what the command saved.        *)
(*  - text (descriptions, theme names) is a sequence of lower-case words;  *)
(*    `keyword in text` is membership of the word in the sequence.         *)
(*  - ids are sequences of words: <<"m1">> for a uuid4()[:8] value, the    *)
(*    words of the name for a slug id, <<>> for None.                      *)
(*  - uuid4 values are fresh: themes, tasks and changes each draw from     *)
(*    their own names, the first ones no object they are stored beside    *)
(*    uses.                                                                *)
(*  - last_touched is "none", "recent" (at most stale_days days old) or    *)
(*    "stale"; DaysPass is the elapse of more than stale_days days.        *)
(***************************************************************************)
EXTENDS Integers, Sequences, FiniteSets, TLC

VARIABLES
    roadmap,    \* content of data/roadmap.json
    last,       \* what the command that ran last did to theme statuses
    batch,      \* the activities handed to an ActivityMatcher, <<>> before any
    match,      \* what the matcher returned for batch, run after run
    obj,        \* a Roadmap object
    doc,        \* <<obj.to_dict()>>, <<>> before the call
    loaded,     \* <<Roadmap.from_dict(doc)>>, <<>> before the call
    log,        \* the activities of data/activities/<today>.json
    disk,       \* the JSON files, as the chunks written to them
    procs,      \* the invocations that load and rewrite the files
    clock,      \* the calendar date of datetime.now()
    history,    \* the snapshots of data/history/daily_snapshots.json
    call,       \* the arguments of a function of the recap or of a collector
    ret         \* <<what the function returned>>, <<>> before the call

vars == <<roadmap, last, batch, match, obj, doc, loaded, log, disk, procs, clock, history, call, ret>>

\* the variables of the files written chunk by chunk, of the snapshots and of
\* the functions called on their own
files == <<disk, procs, clock, history, call, ret>>

\* the variables outside the roadmap file and the matcher
elsewhere == <<obj, doc, loaded, log, files>>

\* the variables of the roadmap file and of the matcher
core == <<roadmap, last, batch, match>>

---------------------------------------------------------------------------
(* Bounds of the model *)

MaxThemes == 2      \* themes in the roadmap, over all projects
MaxTasks == 2       \* tasks in the roadmap, over all themes
MaxChanges == 2     \* length of pending_changes
MaxBatch == 1       \* collector outputs in one collected batch
MaxMatched == 2     \* activities in a batch handed to the matcher
MaxLog == 3         \* activities in the daily log
MaxSaved == 2       \* activities in one call of save_activities
MaxDays == 31       \* days the clock runs after the first one
MaxIdle == 1        \* days without a nightly run
MaxReruns == 1      \* days with a second nightly run
MaxRecap == 4       \* activities of a batch the recap reports on
MaxRepos == 3       \* git repositories under scan_root
MaxDirs == 2        \* directories of a project with files to scan
MaxReview == 3      \* pending_changes of the roadmap file under review
MaxWeek == 3        \* activities handed to analyze_activities_for_wins
MaxFiles == 2       \* files of such a directory

---------------------------------------------------------------------------
(* Values *)

NoneV == "None"
NoId == <<>>

PLANNED == "planned"
ACTIVE == "active"
BLOCKED == "blocked"
COMPLETE == "complete"
ThemeStatus == {PLANNED, ACTIVE, BLOCKED, COMPLETE}

\* ProposedChange.approved: Optional[bool]
Pending == "None"
Approved == "True"
Rejected == "False"

\* str(uuid4())[:8] values, taken never to repeat, by the kind of object that gets them
ThemeUuids == << <<"m1">>, <<"m2">>, <<"m3">>, <<"m4">> >>
TaskUuids == << <<"k1">>, <<"k2">>, <<"k3">> >>
ChangeUuids == << <<"c1">>, <<"c2">>, <<"c3">>, <<"c4">>, <<"c5">>, <<"c6">> >>

---------------------------------------------------------------------------
(* Sequence helpers *)

Range(s) == {s[i] : i \in 1..Len(s)}

RECURSIVE SelectIdx(_, _, _)
\* the indices i >= from of s, ascending, that lie in the set keep
SelectIdx(n, from, keep) ==
    IF from > n THEN <<>>
    ELSE IF from \in keep THEN <<from>> \o SelectIdx(n, from + 1, keep)
    ELSE SelectIdx(n, from + 1, keep)

\* index of the first element of s in the set good, 0 when there is none
FirstIn(s, good) ==
    IF \E i \in 1..Len(s) : s[i] \in good
    THEN CHOOSE i \in 1..Len(s) : s[i] \in good /\ \A j \in 1..(i - 1) : s[j] \notin good
    ELSE 0

RECURSIVE Concat(_)
\* the sequences of ss, one after the other
Concat(ss) == IF ss = <<>> THEN <<>> ELSE Head(ss) \o Concat(Tail(ss))

RECURSIVE SumSeq(_)
SumSeq(s) == IF s = <<>> THEN 0 ELSE Head(s) + SumSeq(Tail(s))

---------------------------------------------------------------------------
(* Roadmap object graph *)

Theme(id, name, status, last_touched) ==
    [id |-> id, name |-> name, status |-> status,
     last_touched |-> last_touched, tasks |-> <<>>]

ProposedChange(id, change_type, theme_id, new_status, project) ==
    [id |-> id, change_type |-> change_type,
     details |-> [theme_id |-> theme_id, new_status |-> new_status, project |-> project],
     approved |-> Pending]

\* positions <<p, t>> of all themes, in the order of the nested loops
\* `for project in roadmap.projects: for theme in project.themes`
ThemePositions(rm) ==
    {<<p, t>> : p \in 1..Len(rm.projects), t \in 1..MaxThemes} \cap
    {pos \in (1..Len(rm.projects)) \X (1..MaxThemes) :
        pos[2] <= Len(rm.projects[pos[1]].themes)}

ThemeAt(rm, pos) == rm.projects[pos[1]].themes[pos[2]]

Before(a, b) == a[1] < b[1] \/ (a[1] = b[1] /\ a[2] < b[2])

NumThemes(rm) == Cardinality(ThemePositions(rm))

NumTasks(rm) ==
    SumSeq([p \in 1..Len(rm.projects) |->
        SumSeq([t \in 1..Len(rm.projects[p].themes) |->
            Len(rm.projects[p].themes[t].tasks)])])

ThemeIds(rm) == {ThemeAt(rm, pos).id : pos \in ThemePositions(rm)}

TaskIds(rm) ==
    UNION {Range([i \in 1..Len(ThemeAt(rm, pos).tasks) |-> ThemeAt(rm, pos).tasks[i].id])
           : pos \in ThemePositions(rm)}

ChangeIds(changes) == {changes[i].id : i \in 1..Len(changes)}

\* str(uuid4())[:8]: the k-th value of the pool that is not in use
\* an id generator that hands out the same values again
uuid4_repeating(pool, used, k) == pool[k]

uuid4(pool, used, k) ==
    LET free == SelectIdx(Len(pool), 1, {i \in 1..Len(pool) : pool[i] \notin used})
    IN pool[free[k]]

---------------------------------------------------------------------------
(* cli/review.py *)

\* the position the loops of apply_change stop at: the first theme with the id
FindTheme(rm, theme_id) ==
    LET hits == {pos \in ThemePositions(rm) : ThemeAt(rm, pos).id = theme_id}
    IN IF hits = {} THEN <<0, 0>>
       ELSE CHOOSE pos \in hits : \A q \in hits : q = pos \/ Before(pos, q)

FindChange(rm, change_id) ==
    FirstIn([i \in 1..Len(rm.pending_changes) |-> rm.pending_changes[i].id], {change_id})

\* apply_change without its `change.approved = True` on a status_change
apply_change_unmarked(rm, change_id) ==
    LET c == FindChange(rm, change_id) IN
    IF c = 0 THEN [ok |-> FALSE, roadmap |-> rm]
    ELSE LET change == rm.pending_changes[c] IN
        IF change.change_type = "status_change" THEN
            LET pos == FindTheme(rm, change.details.theme_id) IN
            IF pos = <<0, 0>> THEN [ok |-> FALSE, roadmap |-> rm]
            ELSE [ok |-> TRUE,
                  roadmap |-> [rm EXCEPT
                      !.projects[pos[1]].themes[pos[2]].status = change.details.new_status,
                      !.projects[pos[1]].themes[pos[2]].last_touched = "recent"]]
        ELSE IF change.change_type \in {"stale_warning", "new_theme_suggestion"} THEN
            [ok |-> TRUE, roadmap |-> [rm EXCEPT !.pending_changes[c].approved = Approved]]
        ELSE [ok |-> FALSE, roadmap |-> rm]

\* apply_change with a last branch that acknowledges a change of any other type
apply_change_acknowledging(rm, change_id) ==
    LET c == FindChange(rm, change_id) IN
    IF c = 0 THEN [ok |-> FALSE, roadmap |-> rm]
    ELSE LET change == rm.pending_changes[c] IN
        IF change.change_type = "status_change" THEN
            LET pos == FindTheme(rm, change.details.theme_id) IN
            IF pos = <<0, 0>> THEN [ok |-> FALSE, roadmap |-> rm]
            ELSE [ok |-> TRUE,
                  roadmap |-> [rm EXCEPT
                      !.projects[pos[1]].themes[pos[2]].status = change.details.new_status,
                      !.projects[pos[1]].themes[pos[2]].last_touched = "recent",
                      !.pending_changes[c].approved = Approved]]
        ELSE [ok |-> TRUE, roadmap |-> [rm EXCEPT !.pending_changes[c].approved = Approved]]

apply_change(rm, change_id) ==
    LET c == FindChange(rm, change_id) IN
    IF c = 0 THEN [ok |-> FALSE, roadmap |-> rm]
    ELSE LET change == rm.pending_changes[c] IN
        IF change.change_type = "status_change" THEN
            LET pos == FindTheme(rm, change.details.theme_id) IN
            IF pos = <<0, 0>> THEN [ok |-> FALSE, roadmap |-> rm]
            ELSE [ok |-> TRUE,
                  roadmap |-> [rm EXCEPT
                      !.projects[pos[1]].themes[pos[2]].status = change.details.new_status,
                      !.projects[pos[1]].themes[pos[2]].last_touched = "recent",
                      !.pending_changes[c].approved = Approved]]
        ELSE IF change.change_type \in {"stale_warning", "new_theme_suggestion"} THEN
            [ok |-> TRUE, roadmap |-> [rm EXCEPT !.pending_changes[c].approved = Approved]]
        ELSE [ok |-> FALSE, roadmap |-> rm]

reject_change(rm, change_id) ==
    LET c == FindChange(rm, change_id) IN
    IF c = 0 THEN [ok |-> FALSE, roadmap |-> rm]
    ELSE [ok |-> TRUE, roadmap |-> [rm EXCEPT !.pending_changes[c].approved = Rejected]]

\* ids of `[c for c in roadmap.pending_changes if c.approved is None]`
PendingIds(rm) ==
    LET idx == SelectIdx(Len(rm.pending_changes), 1,
                   {i \in 1..Len(rm.pending_changes) : rm.pending_changes[i].approved = Pending})
    IN [k \in 1..Len(idx) |-> rm.pending_changes[idx[k]].id]

RECURSIVE ApplyEach(_, _)
ApplyEach(rm, ids) ==
    IF ids = <<>> THEN rm
    ELSE ApplyEach(apply_change(rm, Head(ids)).roadmap, Tail(ids))

RECURSIVE RejectEach(_, _)
RejectEach(rm, ids) ==
    IF ids = <<>> THEN rm
    ELSE RejectEach(reject_change(rm, Head(ids)).roadmap, Tail(ids))

\* what `last` records of a command: the positions of the themes whose status
\* it rewrote, and the positions of the complete themes that it handed
\* activities of to update_theme_statuses (touched: the theme ids handed over)
Ran(touched) ==
    [changed |-> {pos \in ThemePositions(roadmap) :
                    ThemeAt(roadmap', pos).status # ThemeAt(roadmap, pos).status},
     kept |-> {pos \in ThemePositions(roadmap) :
                    /\ ThemeAt(roadmap, pos).status = COMPLETE
                    /\ ThemeAt(roadmap, pos).id \in touched}]

cmd_list ==
    /\ roadmap' = roadmap
    /\ last' = Ran({})
    /\ UNCHANGED <<batch, match, elsewhere>>

cmd_approve_all ==
    /\ roadmap' = ApplyEach(roadmap, PendingIds(roadmap))
    /\ last' = Ran({})
    /\ UNCHANGED <<batch, match, elsewhere>>

cmd_approve(change_id) ==
    LET r == apply_change(roadmap, change_id) IN
    /\ roadmap' = IF r.ok THEN r.roadmap ELSE roadmap
    /\ last' = Ran({})
    /\ UNCHANGED <<batch, match, elsewhere>>

cmd_reject_all ==
    /\ roadmap' = RejectEach(roadmap, PendingIds(roadmap))
    /\ last' = Ran({})
    /\ UNCHANGED <<batch, match, elsewhere>>

cmd_reject(change_id) ==
    LET r == reject_change(roadmap, change_id) IN
    /\ roadmap' = IF r.ok THEN r.roadmap ELSE roadmap
    /\ last' = Ran({})
    /\ UNCHANGED <<batch, match, elsewhere>>

\* cmd_clear keeping `[c for c in ... if c.approved is not True]`
ClearedOfApproved(rm) ==
    LET keep == SelectIdx(Len(rm.pending_changes), 1,
                    {i \in 1..Len(rm.pending_changes) :
                        rm.pending_changes[i].approved # Approved})
    IN [rm EXCEPT !.pending_changes = [k \in 1..Len(keep) |-> rm.pending_changes[keep[k]]]]

\* the roadmap cmd_clear saves:
\* pending_changes = [c for c in roadmap.pending_changes if c.approved is None]
Cleared(rm) ==
    LET keep == SelectIdx(Len(rm.pending_changes), 1,
                    {i \in 1..Len(rm.pending_changes) :
                        rm.pending_changes[i].approved = Pending})
    IN [rm EXCEPT !.pending_changes = [k \in 1..Len(keep) |-> rm.pending_changes[keep[k]]]]

cmd_clear ==
    /\ roadmap' = Cleared(roadmap)
    /\ last' = Ran({})
    /\ UNCHANGED <<batch, match, elsewhere>>

---------------------------------------------------------------------------
(* Activities and text *)

\* len(word) for the words of the vocabulary
Words == {"api", "auth", "search", "export", "shipped", "blocked", "fixed", "billing",
          "invoices"}

WordLen == [w \in Words |->
    CASE w = "api" -> 3
      [] w = "auth" -> 4
      [] w = "fixed" -> 5
      [] w \in {"search", "export"} -> 6
      [] w = "invoices" -> 8
      [] OTHER -> 7]

COMPLETION_KEYWORDS ==
    {"ship", "shipped", "launch", "launched", "deploy", "deployed", "complete",
     "completed", "finish", "finished", "done", "released", "live", "published",
     "delivered"}

BLOCKED_KEYWORDS == {"blocked", "waiting", "stuck", "paused", "on hold", "pending review"}

MIN_ACTIVITIES_FOR_THEME == 3

\* the stopwords of extract_theme_name that occur in the vocabulary
stopwords == {"fixed"}

\* an Activity; a path is a sequence of characters, <<>> when absent; the match
\* annotations are <<>> when absent and <<value>> when stored
Activity(source, description, project, theme_id, project_path, files_edited, channels, branch) ==
    [source |-> source, description |-> description,
     raw_data |-> [project |-> project, theme_id |-> theme_id,
                   project_path |-> project_path, task_descriptions |-> <<>>,
                   folder |-> <<>>, path |-> <<>>, cwd |-> <<>>,
                   files_edited |-> files_edited, files_changed |-> <<>>,
                   channels |-> channels, branch |-> branch,
                   match_confidence |-> <<>>, match_signals |-> <<>>]]

\* activity.description.lower() plus the task descriptions
SignalText(a) ==
    LET tasks == a.raw_data.task_descriptions
        Cat[i \in 0..Len(tasks)] == IF i = 0 THEN a.description ELSE Cat[i - 1] \o tasks[i]
    IN Cat[Len(tasks)]

\* the activities of acts, in order, whose index is in keep
SubBatch(acts, keep) ==
    LET idx == SelectIdx(Len(acts), 1, keep) IN [k \in 1..Len(idx) |-> acts[idx[k]]]

---------------------------------------------------------------------------
(* _archive/auto_themes.py *)

check_completion_signals(acts) ==
    \E i \in 1..Len(acts) : Range(SignalText(acts[i])) \cap COMPLETION_KEYWORDS # {}

check_blocked_signals(acts) ==
    \E i \in 1..Len(acts) : Range(SignalText(acts[i])) \cap BLOCKED_KEYWORDS # {}

\* by_theme.get(theme.id, []) of update_theme_statuses
ThemeActivities(acts, theme_id) ==
    SubBatch(acts, {i \in 1..Len(acts) :
        acts[i].raw_data.theme_id # NoId /\ acts[i].raw_data.theme_id = theme_id})

\* the loop body with a branch for complete themes: activity reopens the theme
UpdatedThemeReopening(theme, theme_activities) ==
    IF theme.status = PLANNED THEN
        IF theme_activities # <<>>
        THEN [theme EXCEPT !.status = ACTIVE, !.last_touched = "recent"]
        ELSE theme
    ELSE IF theme.status = ACTIVE THEN
        IF check_completion_signals(theme_activities)
        THEN [theme EXCEPT !.status = COMPLETE, !.last_touched = "recent"]
        ELSE IF check_blocked_signals(theme_activities)
        THEN [theme EXCEPT !.status = BLOCKED, !.last_touched = "recent"]
        ELSE IF theme_activities # <<>>
        THEN [theme EXCEPT !.last_touched = "recent"]
        ELSE theme
    ELSE IF theme_activities # <<>>
    THEN [theme EXCEPT !.status = ACTIVE, !.last_touched = "recent"]
    ELSE theme

\* one iteration of the loop of update_theme_statuses: the theme afterwards
UpdatedTheme(theme, theme_activities) ==
    IF theme.status = PLANNED THEN
        IF theme_activities # <<>>
        THEN [theme EXCEPT !.status = ACTIVE, !.last_touched = "recent"]
        ELSE theme
    ELSE IF theme.status = ACTIVE THEN
        IF check_completion_signals(theme_activities)
        THEN [theme EXCEPT !.status = COMPLETE, !.last_touched = "recent"]
        ELSE IF check_blocked_signals(theme_activities)
        THEN [theme EXCEPT !.status = BLOCKED, !.last_touched = "recent"]
        ELSE IF theme_activities # <<>>
        THEN [theme EXCEPT !.last_touched = "recent"]
        ELSE theme
    ELSE IF theme.status = BLOCKED THEN
        IF theme_activities # <<>>
        THEN [theme EXCEPT !.status = ACTIVE, !.last_touched = "recent"]
        ELSE theme
    ELSE theme

\* the roadmap object after the loops of update_theme_statuses
StatusesUpdated(acts, rm) ==
    [rm EXCEPT !.projects =
        [p \in 1..Len(rm.projects) |-> [rm.projects[p] EXCEPT !.themes =
            [t \in 1..Len(rm.projects[p].themes) |->
                UpdatedTheme(rm.projects[p].themes[t],
                    ThemeActivities(acts, rm.projects[p].themes[t].id))]]]]

\* len(changes): the themes whose status the loops rewrote
StatusChanges(rm, after) ==
    Cardinality({pos \in ThemePositions(rm) :
                    ThemeAt(after, pos).status # ThemeAt(rm, pos).status})

\* update_theme_statuses: the roadmap afterwards and the number of changes reported
update_theme_statuses(acts, rm) ==
    [roadmap |-> StatusesUpdated(acts, rm),
     changes |-> StatusChanges(rm, StatusesUpdated(acts, rm))]

\* the significant words of the texts of acts, in order of occurrence
SignificantWords(acts) ==
    SelectSeq(Concat([i \in 1..Len(acts) |-> SignalText(acts[i])]),
              LAMBDA w : WordLen[w] >= 3 /\ w \notin stopwords)

Count(w, ws) == Cardinality({i \in 1..Len(ws) : ws[i] = w})

\* the first occurrence of the most frequent word of ws outside taken, 0 if none
MostCommon(ws, taken) ==
    LET cand == {i \in 1..Len(ws) : ws[i] \notin taken /\ \A j \in 1..(i - 1) : ws[j] # ws[i]}
    IN IF cand = {} THEN 0
       ELSE CHOOSE i \in cand : \A j \in cand :
                \/ Count(ws[i], ws) > Count(ws[j], ws)
                \/ (Count(ws[i], ws) = Count(ws[j], ws) /\ i <= j)

RECURSIVE most_common(_, _, _)
\* Counter.most_common(k): by count descending, first counted first among equals
most_common(ws, taken, k) ==
    IF k = 0 \/ MostCommon(ws, taken) = 0 THEN <<>>
    ELSE <<ws[MostCommon(ws, taken)]>>
         \o most_common(ws, taken \cup {ws[MostCommon(ws, taken)]}, k - 1)

TopWords(ws) == SelectSeq(most_common(ws, {}, 3), LAMBDA w : Count(w, ws) >= 2)

\* the name extract_theme_name returns, given top_words
ThemeName(acts, top_words) ==
    IF top_words # <<>> THEN top_words
    ELSE IF acts # <<>>
    THEN SubSeq(acts[1].description, 1,
                IF Len(acts[1].description) < 4 THEN Len(acts[1].description) ELSE 4)
    ELSE <<"development", "work">>

extract_theme_name(acts) == ThemeName(acts, TopWords(SignificantWords(acts)))

\* the project names of acts in order of first occurrence (keys of a defaultdict)
RECURSIVE KeysInOrder(_)
KeysInOrder(keys) ==
    IF keys = <<>> THEN <<>>
    ELSE LET front == KeysInOrder(SubSeq(keys, 1, Len(keys) - 1))
         IN IF keys[Len(keys)] \in Range(front) THEN front ELSE Append(front, keys[Len(keys)])

ProjectKey(a) == IF a.raw_data.project = NoneV THEN "Unknown" ELSE a.raw_data.project

FindProject(rm, name) ==
    FirstIn([p \in 1..Len(rm.projects) |-> rm.projects[p].name], {name})

\* a dict of lists filled by `d[key[i]].append(acts[i])` for the indices i in keep
GroupBy(acts, keep, key) ==
    LET keys == KeysInOrder(SubBatch(key, keep))
    IN [k \in 1..Len(keys) |->
            [key |-> keys[k],
             items |-> SubBatch(acts, {i \in keep : key[i] = keys[k]})]]

\* d.get(key, []) on such a dict
Get(d, key) ==
    IF \E k \in 1..Len(d) : d[k].key = key
    THEN d[CHOOSE k \in 1..Len(d) : d[k].key = key].items
    ELSE <<>>

\* by_project of detect_new_themes: the activities of no existing theme
OpenByProject(acts, rm) ==
    GroupBy(acts, {i \in 1..Len(acts) : acts[i].raw_data.theme_id \notin ThemeIds(rm)},
            [i \in 1..Len(acts) |-> ProjectKey(acts[i])])

\* one iteration of the loop over by_project: its suggestion, none when skipped;
\* p is the roadmap project found, theme_name the extracted name
Suggestion(rm, project_name, project_activities, p, theme_name) ==
    IF \/ Len(project_activities) < MIN_ACTIVITIES_FOR_THEME
       \/ project_name \in {"Unknown", "Slack", "git"}
       \/ p = 0
       \/ \E t \in 1..Len(rm.projects[p].themes) : rm.projects[p].themes[t].name = theme_name
    THEN <<>>
    ELSE <<[project_name |-> project_name,
            theme |-> Theme(theme_name, theme_name, ACTIVE, "recent")]>>

Suggestions(rm, by_project) ==
    Concat([g \in 1..Len(by_project) |->
        Suggestion(rm, by_project[g].key, by_project[g].items,
                   FindProject(rm, by_project[g].key),
                   extract_theme_name(by_project[g].items))])

\* detect_new_themes: the suggestions [project_name, theme], in order
detect_new_themes(acts, rm) == Suggestions(rm, OpenByProject(acts, rm))

\* add_theme_to_project: [ok, roadmap]
add_theme_to_project(rm, project_name, theme) ==
    LET p == FindProject(rm, project_name) IN
    IF p = 0 THEN [ok |-> FALSE, roadmap |-> rm]
    ELSE IF \E t \in 1..Len(rm.projects[p].themes) : rm.projects[p].themes[t].id = theme.id
    THEN [ok |-> FALSE, roadmap |-> rm]
    ELSE [ok |-> TRUE,
          roadmap |-> [rm EXCEPT !.projects[p].themes = Append(@, theme)]]

RECURSIVE AddThemes(_, _, _)
\* the loop of run_auto_themes over new_themes: [roadmap, themes_added]
AddThemes(rm, new_themes, themes_added) ==
    IF new_themes = <<>> THEN [roadmap |-> rm, themes_added |-> themes_added]
    ELSE AddThemes(
            add_theme_to_project(rm, Head(new_themes).project_name,
                                 Head(new_themes).theme).roadmap,
            Tail(new_themes),
            themes_added + (IF add_theme_to_project(rm, Head(new_themes).project_name,
                                                    Head(new_themes).theme).ok
                            THEN 1 ELSE 0))

\* what run_auto_themes saves and returns, given the outcome of its two steps
AutoResults(file, added, updated) ==
    [file |-> IF added.themes_added > 0 \/ updated.changes > 0
              THEN updated.roadmap ELSE file,
     themes_added |-> added.themes_added,
     statuses_updated |-> updated.changes]

\* the second step of run_auto_themes
AutoStatus(file, acts, auto_status, added) ==
    AutoResults(file, added,
        IF auto_status THEN update_theme_statuses(acts, added.roadmap)
        ELSE [roadmap |-> added.roadmap, changes |-> 0])

\* run_auto_themes on the roadmap file content: [file, themes_added, statuses_updated]
run_auto_themes(file, acts, auto_add, auto_status) ==
    AutoStatus(file, acts, auto_status,
        IF auto_add THEN AddThemes(file, detect_new_themes(acts, file), 0)
        ELSE [roadmap |-> file, themes_added |-> 0])

\* theme ids that activities of the batch carry
Touched(acts) == {acts[i].raw_data.theme_id : i \in 1..Len(acts)} \ {NoId}

---------------------------------------------------------------------------
(* agent/nightly.py *)

\* the themes in the order of the nested loops over projects and themes
ThemesInOrder(rm) ==
    Concat([p \in 1..Len(rm.projects) |-> rm.projects[p].themes])

\* the theme_keywords dict of categorize_activities: its keys in insertion order
ThemeKeywords(rm) ==
    LET themes == ThemesInOrder(rm)
    IN KeysInOrder(SelectSeq(Concat([k \in 1..Len(themes) |-> themes[k].name]),
                             LAMBDA w : WordLen[w] > 3))

\* theme_keywords[word]: the last theme, in loop order, whose name has the word
KeywordTheme(rm, word) ==
    LET hits == {pos \in ThemePositions(rm) : word \in Range(ThemeAt(rm, pos).name)}
    IN ThemeAt(rm, CHOOSE pos \in hits : \A q \in hits : q = pos \/ Before(q, pos))

\* the id of matched_theme for one activity, NoId when no keyword matches
MatchedThemeId(rm, a) ==
    LET kws == ThemeKeywords(rm)
        k == FirstIn(kws, Range(a.description))
    IN IF k = 0 THEN NoId ELSE KeywordTheme(rm, kws[k]).id

RECURSIVE MatchedThemeIds(_, _)
MatchedThemeIds(rm, acts) ==
    IF acts = <<>> THEN <<>>
    ELSE <<MatchedThemeId(rm, Head(acts))>> \o MatchedThemeIds(rm, Tail(acts))

categorize_activities(acts, rm) ==
    LET matched == MatchedThemeIds(rm, acts)
        hinted == {i \in 1..Len(acts) : acts[i].raw_data.project # NoneV}
        themed == {i \in hinted : matched[i] # NoId}
    IN [by_project |-> GroupBy(acts, hinted, [i \in 1..Len(acts) |-> acts[i].raw_data.project]),
        by_theme |-> GroupBy(acts, themed, matched),
        uncategorized |-> SubBatch(acts, (1..Len(acts)) \ themed),
        total_activities |-> Len(acts)]

\* the first theme of project p with the id, 0 when it has none
ThemeInProject(rm, p, theme_id) ==
    FirstIn([t \in 1..Len(rm.projects[p].themes) |-> rm.projects[p].themes[t].id], {theme_id})

\* generate_proposed_changes, the ids still to be drawn
ProposedDrafts(categorized, rm) ==
    LET by_theme == categorized.by_theme
        activate == Concat([e \in 1..Len(by_theme) |->
            Concat([p \in 1..Len(rm.projects) |->
                LET t == ThemeInProject(rm, p, by_theme[e].key) IN
                IF t # 0 /\ rm.projects[p].themes[t].status = PLANNED
                         /\ Len(by_theme[e].items) > 0
                THEN <<ProposedChange(NoId, "status_change", by_theme[e].key, ACTIVE, NoneV)>>
                ELSE <<>>])])
        stale == Concat([p \in 1..Len(rm.projects) |->
            Concat([t \in 1..Len(rm.projects[p].themes) |->
                LET theme == rm.projects[p].themes[t] IN
                IF theme.status = ACTIVE /\ Get(by_theme, theme.id) = <<>>
                                         /\ theme.last_touched = "stale"
                THEN <<ProposedChange(NoId, "stale_warning", theme.id, NoneV, NoneV)>>
                ELSE <<>>])])
        groups == GroupBy(categorized.uncategorized,
                          1..Len(categorized.uncategorized),
                          [i \in 1..Len(categorized.uncategorized) |->
                              ProjectKey(categorized.uncategorized[i])])
        suggest == Concat([g \in 1..Len(groups) |->
            IF Len(groups[g].items) >= 3
            THEN <<ProposedChange(NoId, "new_theme_suggestion", NoId, NoneV, groups[g].key)>>
            ELSE <<>>])
    IN activate \o stale \o suggest

\* each draft with its own uuid4 value
WithIds(drafts, used) ==
    [k \in 1..Len(drafts) |-> [drafts[k] EXCEPT !.id = uuid4(ChangeUuids, used, k)]]

\* the list is stored in place of pending_changes, beside no other change
generate_proposed_changes(categorized, rm) ==
    WithIds(ProposedDrafts(categorized, rm), {})

\* the file a recap leaves: `if save and changes`, the roadmap object rm saved
\* with changes as its pending_changes
WithChanges(file, rm, changes, save) ==
    IF save /\ changes # <<>> THEN [rm EXCEPT !.pending_changes = changes] ELSE file

\* a command ends with `file` as the content of data/roadmap.json
Leaves(file, touched) ==
    /\ NumThemes(file) <= MaxThemes
    /\ Len(file.pending_changes) <= MaxChanges
    /\ roadmap' = file
    /\ last' = Ran(touched)
    /\ UNCHANGED <<batch, match, elsewhere>>

\* a recap that runs update_theme_statuses on the roadmap it saves
run_recap_updating(acts, save) ==
    Leaves(WithChanges(roadmap, StatusesUpdated(acts, roadmap),
               generate_proposed_changes(categorize_activities(acts, roadmap), roadmap),
               save),
           {})

\* run_recap of agent/nightly.py
run_recap(acts, save) ==
    Leaves(WithChanges(roadmap, roadmap,
               generate_proposed_changes(categorize_activities(acts, roadmap), roadmap),
               save),
           {})

\* round(count / total * 100) for a total below 40: there the double is at a
\* half only where count * 100 / total is, and round() gives the nearest integer
\* and, at a half, the even one (from 40 on the double can fall just below a
\* half: 23 / 40 * 100 is 57.49999999999999)
percentage(count, total) ==
    IF 2 * ((count * 100) % total) < total THEN (count * 100) \div total
    ELSE IF 2 * ((count * 100) % total) > total THEN ((count * 100) \div total) + 1
    ELSE ((count * 100) \div total) + (((count * 100) \div total) % 2)

\* team_activities[team] once the loop over roadmap.projects is through
team_activities(by_project, rm, team) ==
    SumSeq([p \in 1..Len(rm.projects) |->
        IF rm.projects[p].team = team THEN Len(Get(by_project, rm.projects[p].name)) ELSE 0])

\* the dict comprehension of calculate_team_distribution, the teams in the
\* order team_activities got them
Distribution(by_project, rm, teams, total) ==
    IF total = 0 THEN <<>>
    ELSE [k \in 1..Len(teams) |->
            [team |-> teams[k],
             count |-> team_activities(by_project, rm, teams[k]),
             percentage |-> percentage(team_activities(by_project, rm, teams[k]), total)]]

\* total = sum(team_activities.values())
TeamTotal(by_project, rm, teams) ==
    SumSeq([k \in 1..Len(teams) |-> team_activities(by_project, rm, teams[k])])

TeamsInOrder(rm) == KeysInOrder([p \in 1..Len(rm.projects) |-> rm.projects[p].team])

calculate_team_distribution(categorized, rm) ==
    Distribution(categorized.by_project, rm, TeamsInOrder(rm),
                 TeamTotal(categorized.by_project, rm, TeamsInOrder(rm)))

\* a line of the recap: what it is about and the number it shows
Line(kind, n) == [kind |-> kind, n |-> n]

\* the head of the recap: title, totals, projects touched, sources
SummaryLines(categorized) ==
    <<Line("rule", 0), Line("daily recap", 0), Line("rule", 0),
      Line("total activities", categorized.total_activities),
      Line("projects touched", Len(categorized.by_project)), Line("sources", 0)>>

\* `if distribution:` and its loop
DistributionLines(distribution) ==
    IF distribution = <<>> THEN <<>>
    ELSE <<Line("team distribution", 0)>> \o
         [k \in 1..Len(distribution) |-> Line(distribution[k].team, distribution[k].percentage)]

\* "## Activity by Theme": a project with activities gets a heading and a line
\* for each of its themes with activities
ThemeLines(categorized, rm) ==
    <<Line("activity by theme", 0)>> \o
    Concat([p \in 1..Len(rm.projects) |->
        IF Get(categorized.by_project, rm.projects[p].name) = <<>> THEN <<>>
        ELSE <<Line(rm.projects[p].name, 0)>> \o
             Concat([t \in 1..Len(rm.projects[p].themes) |->
                IF Get(categorized.by_theme, rm.projects[p].themes[t].id) = <<>> THEN <<>>
                ELSE <<Line("theme",
                            Len(Get(categorized.by_theme, rm.projects[p].themes[t].id)))>>])])

\* "## Uncategorized (n activities)", the first five of them, "... and k more"
UncategorizedLines(uncategorized) ==
    IF uncategorized = <<>> THEN <<>>
    ELSE <<Line("uncategorized", Len(uncategorized))>> \o
         [i \in 1..(IF Len(uncategorized) > 5 THEN 5 ELSE Len(uncategorized)) |->
            Line("uncategorized activity", i)] \o
         (IF Len(uncategorized) > 5 THEN <<Line("more", Len(uncategorized) - 5)>> ELSE <<>>)

\* "## Proposed Changes (Review Required)" and a line for each change
ChangeLines(changes) ==
    IF changes = <<>> THEN <<>>
    ELSE <<Line("proposed changes", 0)>> \o
         [i \in 1..Len(changes) |-> Line(changes[i].change_type, i)]

\* what both format_recap print behind their head
BodyLines(categorized, changes, rm, distribution) ==
    DistributionLines(distribution) \o ThemeLines(categorized, rm) \o
    UncategorizedLines(categorized.uncategorized) \o ChangeLines(changes) \o
    <<Line("rule", 0)>>

\* format_recap of agent/nightly.py, the lines of the text, for a day without
\* Claude Code sessions
format_recap(categorized, changes, rm, distribution) ==
    SummaryLines(categorized) \o BodyLines(categorized, changes, rm, distribution)

\* "# Confidence warnings" of _archive/nightly.py; avg_confidence in hundredths
WarningLines(avg_confidence, uncategorized_count, total) ==
    (IF avg_confidence > 0 /\ avg_confidence < 60
     THEN <<Line("low confidence", avg_confidence), Line("consider reviewing", 0)>>
     ELSE <<>>) \o
    (IF total > 0 /\ 4 * uncategorized_count > total
     THEN <<Line("high uncategorized", (uncategorized_count * 100) \div total),
            Line("run auto_themes", 0)>>
     ELSE <<>>)

\* format_recap of _archive/nightly.py for a day without wins and sessions
archive_format_recap(categorized, avg_confidence, changes, rm, distribution) ==
    SummaryLines(categorized) \o
    WarningLines(avg_confidence, Len(categorized.uncategorized), categorized.total_activities) \o
    BodyLines(categorized, changes, rm, distribution)

---------------------------------------------------------------------------
(* _archive/matcher.py *)

\* Signal weights, in hundredths
PATH_WEIGHT == 40
KEYWORD_WEIGHT == 25
CONTEXT_WEIGHT == 15
SOURCE_WEIGHT == 20

\* Scores are Python floats.  A double in [0, 4) is written <<hi, lo>> for the
\* value (hi * Limb + lo) / 2^56; every double the matcher computes is such a
\* multiple of 2^-56.
Limb == 268435456

\* the doubles of the literals 0.0, 0.15, 0.5, 0.6 and 1.0, by their hundredths
Float(hundredths) ==
    CASE hundredths = 0 -> <<0, 0>>
      [] hundredths = 15 -> <<40265318, 107374182>>
      [] hundredths = 50 -> <<134217728, 0>>
      [] hundredths = 60 -> <<161061273, 161061272>>
      [] hundredths = 100 -> <<Limb, 0>>

\* x < y on doubles
Less(x, y) == x[1] < y[1] \/ (x[1] = y[1] /\ x[2] < y[2])

\* the number of low bits a sum with the high limb hi has beyond the 53 bits
\* of a double
ExcessBits(hi) ==
    IF hi < 2^25 THEN 0 ELSE IF hi < 2^26 THEN 1 ELSE IF hi < 2^27 THEN 2
    ELSE IF hi < 2^28 THEN 3 ELSE IF hi < 2^29 THEN 4 ELSE 5

\* <<hi, lo>> rounded to a multiple of q, to nearest, ties to even
RoundTo(hi, lo, q) ==
    IF (lo % q) * 2 > q \/ ((lo % q) * 2 = q /\ (lo \div q) % 2 = 1)
    THEN <<hi + ((lo - (lo % q) + q) \div Limb), (lo - (lo % q) + q) % Limb>>
    ELSE <<hi, lo - (lo % q)>>

\* the double nearest to the exact sum hi * Limb + lo, lo < 2 * Limb
Rounded(hi, lo) ==
    RoundTo(hi + (lo \div Limb), lo % Limb, 2 ^ ExcessBits(hi + (lo \div Limb)))

\* x + y on doubles
Fadd(x, y) == Rounded(x[1] + y[1], x[2] + y[2])

\* confidence * weight on doubles, for the confidences and weights of the
\* matcher, both in hundredths
Product(confidence, weight) ==
    CASE <<confidence, weight>> = <<70, 25>> -> <<46976204, 214748364>>
      [] <<confidence, weight>> = <<60, 25>> -> <<40265318, 107374182>>
      [] <<confidence, weight>> = <<90, 20>> -> <<48318382, 21474838>>
      [] <<confidence, weight>> = <<70, 20>> -> <<37580963, 225485782>>
      [] <<confidence, weight>> = <<80, 15>> -> <<32212254, 193273528>>

\* min(0.6 + specificity * 0.4, 1.0) * weight on doubles, with specificity =
\* folder / max(path, 1) for the lengths of a project folder and of a path
PathScore(folder, path, weight) ==
    CASE <<folder, path, weight>> = <<2, 2, 40>> -> <<107374182, 107374184>>
      [] <<folder, path, weight>> = <<2, 3, 40>> -> <<93057624, 200431808>>
      [] <<folder, path, weight>> = <<2, 4, 40>> -> <<85899345, 246960624>>
      [] <<folder, path, weight>> = <<2, 5, 40>> -> <<81604378, 167503728>>
      [] <<folder, path, weight>> = <<2, 6, 40>> -> <<78741067, 25053976>>
      [] <<folder, path, weight>> = <<2, 7, 40>> -> <<76695844, 153391692>>
      [] <<folder, path, weight>> = <<2, 8, 40>> -> <<75161927, 182536108>>

\* config/projects.json
ProjectsConfig ==
    << [name |-> "Billing", id |-> "billing", folder_path |-> <<"/", "b">>,
        aliases |-> <<"billing", "invoices">>, slack_channels |-> <<"billing-team">>],
       [name |-> "Portal", id |-> "portal", folder_path |-> <<"/", "p">>,
        aliases |-> <<>>, slack_channels |-> <<"portal-team">>] >>

\* str.lower() on a sequence of characters
LowerChar(c) == CASE c = "B" -> "b" [] c = "P" -> "p" [] c = "X" -> "x" [] OTHER -> c
Lower(str) == [i \in 1..Len(str) |-> LowerChar(str[i])]

\* `needle in hay` on strings
Contains(hay, needle) ==
    \E i \in 0..(Len(hay) - Len(needle)) : SubSeq(hay, i + 1, i + Len(needle)) = needle

\* a dict built by `d[key] = value` over pairs: keys in insertion order, last value kept
DictKeys(pairs) == KeysInOrder([i \in 1..Len(pairs) |-> pairs[i][1]])
DictValue(pairs, key) ==
    pairs[CHOOSE i \in 1..Len(pairs) :
            pairs[i][1] = key /\ \A j \in (i + 1)..Len(pairs) : pairs[j][1] # key][2]

\* _build_lookup_tables: the tables of the matcher built on config/projects.json
path_to_project ==
    LET with == SelectSeq(ProjectsConfig, LAMBDA pr : pr.folder_path # <<>>)
    IN [i \in 1..Len(with) |-> <<Lower(with[i].folder_path), with[i].name>>]

alias_to_project ==
    Concat([i \in 1..Len(ProjectsConfig) |->
        [k \in 1..Len(ProjectsConfig[i].aliases) |->
            <<ProjectsConfig[i].aliases[k], ProjectsConfig[i].name>>]])

channel_to_project ==
    Concat([i \in 1..Len(ProjectsConfig) |->
        [k \in 1..Len(ProjectsConfig[i].slack_channels) |->
            <<ProjectsConfig[i].slack_channels[k], ProjectsConfig[i].name>>]])

\* keyword_to_themes as the (word, project, theme id) entries in insertion order
keyword_to_themes(rm) ==
    Concat([p \in 1..Len(rm.projects) |->
        Concat([t \in 1..Len(rm.projects[p].themes) |->
            LET theme == rm.projects[p].themes[t]
                words == SelectSeq(theme.name, LAMBDA w : WordLen[w] > 4)
            IN [k \in 1..Len(words) |->
                    [word |-> words[k], project |-> rm.projects[p].name,
                     theme_id |-> theme.id]]])])

\* the paths _match_by_path collects
paths_to_check(a) ==
    SelectSeq(<<a.raw_data.folder, a.raw_data.path, a.raw_data.cwd>>, LAMBDA x : x # <<>>)
    \o a.raw_data.files_edited \o a.raw_data.files_changed

\* the (path, folder) pair the loops of _match_by_path return at, <<0, 0>> when
\* they run to their end
PathHit(paths, keys) ==
    LET hits == {h \in (1..Len(paths)) \X (1..Len(keys)) :
                    Contains(Lower(paths[h[1]]), keys[h[2]])}
    IN IF hits = {} THEN <<0, 0>>
       ELSE CHOOSE x \in hits : \A y \in hits : x = y \/ Before(x, y)

\* what _match_by_path returns at the hit h; points is confidence * PATH_WEIGHT
PathMatch(paths, keys, h) ==
    IF h = <<0, 0>> THEN [hit |-> FALSE, project |-> NoneV, points |-> Float(0)]
    ELSE [hit |-> TRUE, project |-> DictValue(path_to_project, keys[h[2]]),
          points |-> PathScore(Len(keys[h[2]]), Len(Lower(paths[h[1]])), PATH_WEIGHT)]

\* _match_by_path: [hit, project, points]
match_by_path(a) ==
    PathMatch(paths_to_check(a), DictKeys(path_to_project),
              PathHit(paths_to_check(a), DictKeys(path_to_project)))

\* the matches of _match_by_keywords against theme keywords
ThemeMatches(text, entries, words) ==
    Concat([w \in 1..Len(words) |->
        IF words[w] \in Range(text)
        THEN LET of == SelectSeq(entries, LAMBDA e : e.word = words[w])
             IN [k \in 1..Len(of) |->
                    [project |-> of[k].project, theme_id |-> of[k].theme_id, conf |-> 70]]
        ELSE <<>>])

\* the matches of _match_by_keywords against project aliases
AliasMatches(text, keys) ==
    Concat([k \in 1..Len(keys) |->
        IF keys[k] \in Range(text)
        THEN <<[project |-> DictValue(alias_to_project, keys[k]), theme_id |-> NoId,
                conf |-> 60]>>
        ELSE <<>>])

EntryWords(entries) == KeysInOrder([i \in 1..Len(entries) |-> entries[i].word])

\* _match_by_keywords: the (project, theme_id, confidence in hundredths) matches
match_by_keywords(rm, a) ==
    ThemeMatches(SignalText(a), keyword_to_themes(rm), EntryWords(keyword_to_themes(rm)))
    \o AliasMatches(SignalText(a), DictKeys(alias_to_project))

NoMatch == [hit |-> FALSE, project |-> NoneV, conf |-> 0]

\* _match_by_source: [hit, project, conf]
match_by_source(a) ==
    IF a.source = "slack" THEN
        LET c == FirstIn(a.raw_data.channels, Range(DictKeys(channel_to_project)))
        IN IF c = 0 THEN NoMatch
           ELSE [hit |-> TRUE, conf |-> 90,
                 project |-> DictValue(channel_to_project, a.raw_data.channels[c])]
    ELSE IF a.source = "git" /\ a.raw_data.branch # <<>> THEN
        LET k == FirstIn(DictKeys(alias_to_project), Range(a.raw_data.branch))
        IN IF k = 0 THEN NoMatch
           ELSE [hit |-> TRUE, conf |-> 70,
                 project |-> DictValue(alias_to_project, DictKeys(alias_to_project)[k])]
    ELSE NoMatch

\* the additions to `scores` that match_activity makes, in order
Additions(pm, km, sm, a) ==
    (IF pm.hit
     THEN <<[project |-> pm.project, points |-> pm.points,
             theme_id |-> NoId, signal |-> "path"]>>
     ELSE <<>>)
    \o [k \in 1..Len(km) |->
         [project |-> km[k].project, points |-> Product(km[k].conf, KEYWORD_WEIGHT),
          theme_id |-> km[k].theme_id, signal |-> "keyword"]]
    \o (IF sm.hit
        THEN <<[project |-> sm.project, points |-> Product(sm.conf, SOURCE_WEIGHT),
                theme_id |-> NoId, signal |-> "source"]>>
        ELSE <<>>)
    \o (IF a.raw_data.project \notin {NoneV, "Unknown", "Slack"}
        THEN <<[project |-> a.raw_data.project, points |-> Product(80, CONTEXT_WEIGHT),
                theme_id |-> NoId, signal |-> "explicit"]>>
        ELSE <<>>)

ScoreAdditions(rm, a) ==
    Additions(match_by_path(a), match_by_keywords(rm, a), match_by_source(a), a)

RECURSIVE Accumulate(_, _, _)
\* scores[project]["score"] after the additions adds, from the value score
Accumulate(score, adds, project) ==
    IF adds = <<>> THEN score
    ELSE Accumulate(IF Head(adds).project = project
                    THEN Fadd(score, Head(adds).points) ELSE score,
                    Tail(adds), project)

ScoreOf(adds, project) == Accumulate(Float(0), adds, project)

\* the first key inserted into scores, whatever its score
FirstInserted(adds, keys) == keys[1]

\* max(scores.keys(), key=score): the first key, in insertion order, of maximal score
BestOf(adds, keys) ==
    keys[CHOOSE i \in 1..Len(keys) :
            /\ \A j \in 1..Len(keys) : ~Less(ScoreOf(adds, keys[i]), ScoreOf(adds, keys[j]))
            /\ \A j \in 1..(i - 1) : Less(ScoreOf(adds, keys[j]), ScoreOf(adds, keys[i]))]

BestProject(adds) == BestOf(adds, KeysInOrder([k \in 1..Len(adds) |-> adds[k].project]))

\* scores[best_project] as a MatchResult
BestData(best, score, mine, themed) ==
    [project |-> best,
     theme_id |-> IF themed = <<>> THEN NoId ELSE themed[Len(themed)].theme_id,
     confidence |-> IF Less(score, Float(100)) THEN score ELSE Float(100),
     signals |-> [k \in 1..Len(mine) |-> mine[k].signal]]

MatchResult(adds) ==
    IF adds = <<>>
    THEN [project |-> NoneV, theme_id |-> NoId, confidence |-> Float(0), signals |-> <<>>]
    ELSE BestData(BestProject(adds), ScoreOf(adds, BestProject(adds)),
                  SelectSeq(adds, LAMBDA x : x.project = BestProject(adds)),
                  SelectSeq(adds, LAMBDA x : x.project = BestProject(adds)
                                             /\ x.theme_id # NoId))

match_activity(rm, a) == MatchResult(ScoreAdditions(rm, a))

\* match.confidence >= threshold
AtLeast(m, threshold) == ~Less(m.confidence, threshold)

RECURSIVE MatchEach(_, _)
\* `match = self.match_activity(activity)` for each activity of the batch
MatchEach(rm, acts) ==
    IF acts = <<>> THEN <<>>
    ELSE <<match_activity(rm, Head(acts))>> \o MatchEach(rm, Tail(acts))

\* categorize_batch without its confidence threshold
CategorizedAnyConfidence(acts, m) ==
    LET placed == {i \in 1..Len(acts) : m[i].project # NoneV}
    IN [by_project |-> GroupBy(acts, placed, [i \in 1..Len(acts) |-> m[i].project]),
        by_theme |-> GroupBy(acts, {i \in placed : m[i].theme_id # NoId},
                             [i \in 1..Len(acts) |-> m[i].theme_id]),
        uncategorized |-> SubBatch(acts, (1..Len(acts)) \ placed),
        total_activities |-> Len(acts)]

\* by_project, by_theme and uncategorized, given the match of each activity
Categorized(acts, m) ==
    LET placed == {i \in 1..Len(acts) : m[i].project # NoneV /\ AtLeast(m[i], Float(50))}
    IN [by_project |-> GroupBy(acts, placed, [i \in 1..Len(acts) |-> m[i].project]),
        by_theme |-> GroupBy(acts, {i \in placed : m[i].theme_id # NoId},
                             [i \in 1..Len(acts) |-> m[i].theme_id]),
        uncategorized |-> SubBatch(acts, (1..Len(acts)) \ placed),
        total_activities |-> Len(acts)]

\* annotations that also store the matched project as raw_data["project"]
AnnotatedWithProject(acts, m) ==
    [i \in 1..Len(acts) |->
        [acts[i] EXCEPT !.raw_data.match_confidence = <<m[i].confidence>>,
                        !.raw_data.match_signals = <<m[i].signals>>,
                        !.raw_data.project = m[i].project]]

\* the activities once categorize_batch has stored the match info in raw_data
Annotated(acts, m) ==
    [i \in 1..Len(acts) |->
        [acts[i] EXCEPT !.raw_data.match_confidence = <<m[i].confidence>>,
                        !.raw_data.match_signals = <<m[i].signals>>]]

categorize_batch(rm, acts) ==
    Categorized(Annotated(acts, MatchEach(rm, acts)), MatchEach(rm, acts))

---------------------------------------------------------------------------
(* _archive/nightly.py, _archive/generate.py, _archive/discover_projects.py *)

\* run_recap of _archive/nightly.py once run_auto_themes is through: rm is the
\* roadmap object, reloaded when the file was rewritten
ArchiveRecap(acts, save, rm, touched) ==
    Leaves(WithChanges(rm, rm, generate_proposed_changes(categorize_batch(rm, acts), rm), save),
           touched)

\* run_recap of _archive/nightly.py
archive_run_recap(acts, save, auto_themes) ==
    ArchiveRecap(acts, save,
        IF auto_themes /\ save THEN run_auto_themes(roadmap, acts, TRUE, TRUE).file
        ELSE roadmap,
        IF auto_themes /\ save THEN Touched(acts) ELSE {})

\* main of _archive/auto_themes.py
auto_themes_main(acts, no_add, no_status, dry_run) ==
    /\ acts # <<>>
    /\ Leaves(run_auto_themes(roadmap, acts, ~no_add /\ ~dry_run, ~no_status /\ ~dry_run).file,
              IF ~no_status /\ ~dry_run THEN Touched(acts) ELSE {})

\* generate_ui_data, as far as it writes the roadmap file
generate_ui_data(file, acts) ==
    IF acts # <<>> THEN run_auto_themes(file, acts, TRUE, TRUE).file ELSE file

\* generate_all_views: the today, week and month views; activities come newest
\* first, so a shorter lookback collects a prefix of a longer one
generate_all_views(acts, today, week) ==
    Leaves(generate_ui_data(
               generate_ui_data(generate_ui_data(roadmap, SubSeq(acts, 1, today)),
                                SubSeq(acts, 1, week)),
               acts),
           Touched(acts))

\* save_proposed_changes after discover_as_proposed_changes found n projects
discover_projects_approve(n) ==
    LET drafts == [k \in 1..n |-> ProposedChange(NoId, "new_project", NoId, NoneV, "Found")]
    IN
    /\ Len(roadmap.pending_changes) + n <= MaxChanges
    /\ roadmap' = [roadmap EXCEPT
            !.pending_changes = @ \o WithIds(drafts, ChangeIds(roadmap.pending_changes))]
    /\ last' = Ran({})
    /\ UNCHANGED <<batch, match, elsewhere>>

---------------------------------------------------------------------------
(* cli/manual.py *)

ManualNames == {<<"search">>}

\* the roadmap cmd_theme_add saves: the theme is appended to the first project
ThemeAdded(rm, name, status) ==
    [rm EXCEPT !.projects[1].themes =
        Append(@, Theme(uuid4(ThemeUuids, ThemeIds(rm), 1), name, status, "none"))]

cmd_theme_add(name, status) ==
    /\ roadmap.projects # <<>>
    /\ NumThemes(roadmap) < MaxThemes
    /\ roadmap' = ThemeAdded(roadmap, name, status)
    /\ last' = Ran({})
    /\ UNCHANGED <<batch, match, elsewhere>>

IsPrefix(pre, str) == Len(pre) <= Len(str) /\ SubSeq(str, 1, Len(pre)) = pre

\* the theme cmd_task_add ends with: the inner loop breaks at the first match of
\* a project, the outer loop goes on, so the last project with a match decides
TaskTheme(rm, arg) ==
    LET matches(pos) == ThemeAt(rm, pos).id = arg \/ IsPrefix(arg, ThemeAt(rm, pos).name)
        firsts == {pos \in ThemePositions(rm) :
                     /\ matches(pos)
                     /\ \A t \in 1..(pos[2] - 1) : ~matches(<<pos[1], t>>)}
    IN IF firsts = {} THEN <<0, 0>>
       ELSE CHOOSE pos \in firsts : \A q \in firsts : q = pos \/ Before(q, pos)

cmd_task_add(arg) ==
    LET pos == TaskTheme(roadmap, arg) IN
    /\ NumTasks(roadmap) < MaxTasks
    /\ roadmap' = IF pos = <<0, 0>> THEN roadmap
                  ELSE [roadmap EXCEPT !.projects[pos[1]].themes[pos[2]].tasks =
                          Append(@, [id |-> uuid4(TaskUuids, TaskIds(roadmap), 1), status |-> "todo"])]
    /\ last' = Ran({})
    /\ UNCHANGED <<batch, match, elsewhere>>

---------------------------------------------------------------------------
(* Environment *)

\* more than stale_days days pass: every last_touched is now older than that
DaysPass ==
    /\ \E pos \in ThemePositions(roadmap) : ThemeAt(roadmap, pos).last_touched = "recent"
    /\ roadmap' = [roadmap EXCEPT !.projects =
            [p \in 1..Len(roadmap.projects) |-> [roadmap.projects[p] EXCEPT !.themes =
                [t \in 1..Len(roadmap.projects[p].themes) |->
                    [roadmap.projects[p].themes[t] EXCEPT !.last_touched =
                        IF @ = "recent" THEN "stale" ELSE @]]]]]
    /\ last' = Ran({})
    /\ UNCHANGED <<batch, match, elsewhere>>

\* n copies of an activity: n like records of one collector
Times(n, a) == [i \in 1..n |-> a]

\* the activity lists one collector (or today's saved file) may deliver
CollectorOutputs ==
    { <<Activity("manual", <<"auth", "shipped">>, "Billing", <<"t1">>, <<>>, <<>>, <<>>, <<>>)>>,
      <<Activity("manual", <<"auth", "blocked">>, "Billing", <<"t1">>, <<>>, <<>>, <<>>, <<>>)>>,
      Times(MIN_ACTIVITIES_FOR_THEME,
            Activity("claude", <<"search", "export">>, "Portal", NoId, <<"/", "p">>,
                     << <<"/", "p", "/", "x">> >>, <<>>, <<>>)) }

\* collect_all_activities: the collectors' lists, one after the other
Collected == UNION {[1..n -> CollectorOutputs] : n \in 0..MaxBatch}

---------------------------------------------------------------------------
(* collectors/claude.py, collectors/git.py, cli/manual.py: the daily log *)

\* an Activity as far as the daily log looks at it; the timestamp is the minute
\* and the second within it, so that isoformat()[:16] is the minute
Logged(source, description, minute, second, hash) ==
    [source |-> source, description |-> description,
     timestamp |-> [minute |-> minute, second |-> second],
     raw_data |-> [hash |-> hash]]

\* (a.description, a.source.value, a.timestamp.isoformat()[:16])
ClaudeKey(a) == <<a.description, a.source, a.timestamp.minute>>

\* save_activities of collectors/claude.py: the activities the file is left
\* with; existing_keys is built before the loop and not added to
claude_save_activities(existing, acts) ==
    existing \o SubBatch(acts, {i \in 1..Len(acts) :
        ClaudeKey(acts[i]) \notin {ClaudeKey(existing[k]) : k \in 1..Len(existing)}})

\* the hashes of the git activities of the log
existing_hashes(existing) ==
    {existing[i].raw_data.hash :
        i \in {k \in 1..Len(existing) : existing[k].source = "git"
                                          /\ existing[k].raw_data.hash # NoneV}}

\* save_activities of collectors/git.py
git_save_activities(existing, acts) ==
    existing \o SubBatch(acts, {i \in 1..Len(acts) :
        acts[i].raw_data.hash \notin existing_hashes(existing)})

\* save_activity that puts the new entry first
save_activity_newest_first(existing, activity) == <<activity>> \o existing

\* save_activity of cli/manual.py
save_activity(existing, activity) == Append(existing, activity)

\* None is <<>> and a value v is <<v>> where a field is Optional

\* a member of an Enum class; .value is its value
Member(cls, value) == [cls |-> cls, value |-> value]

\* datetime.isoformat() of a naive datetime, as the fields of
\* YYYY-MM-DDTHH:MM:SS[.ffffff]: the fraction is left out when it is 0
isoformat(dt) ==
    <<dt.date, "T", dt.time>> \o (IF dt.microsecond = 0 THEN <<>> ELSE <<".", dt.microsecond>>)

fromisoformat(str) ==
    [date |-> str[1], time |-> str[3], microsecond |-> IF Len(str) > 3 THEN str[5] ELSE 0]

\* `x.isoformat() if x else None`
OptionalIso(x) == IF x = <<>> THEN <<>> ELSE <<isoformat(x[1])>>

\* `datetime.fromisoformat(data[key]) if data.get(key) else None`
OptionalDatetime(x) == IF x = <<>> THEN <<>> ELSE <<fromisoformat(x[1])>>

Activity_to_dict(a) ==
    [source |-> a.source.value, timestamp |-> isoformat(a.timestamp),
     description |-> a.description, confidence |-> a.confidence,
     raw_data |-> a.raw_data, project_path |-> a.project_path]

Activity_from_dict(data) ==
    [source |-> Member("ActivitySource", data.source),
     timestamp |-> fromisoformat(data.timestamp),
     description |-> data.description, confidence |-> data.confidence,
     raw_data |-> data.raw_data, project_path |-> data.project_path]

Task_to_dict(t) ==
    [id |-> t.id, description |-> t.description, status |-> t.status.value,
     last_touched |-> OptionalIso(t.last_touched), artifacts |-> t.artifacts,
     activities |-> [i \in 1..Len(t.activities) |-> Activity_to_dict(t.activities[i])]]

Task_from_dict(data) ==
    [id |-> data.id, description |-> data.description,
     status |-> Member("TaskStatus", data.status),
     last_touched |-> OptionalDatetime(data.last_touched), artifacts |-> data.artifacts,
     activities |-> [i \in 1..Len(data.activities) |-> Activity_from_dict(data.activities[i])]]

Theme_to_dict(t) ==
    [id |-> t.id, name |-> t.name, status |-> t.status.value, notes |-> t.notes,
     tasks |-> [i \in 1..Len(t.tasks) |-> Task_to_dict(t.tasks[i])],
     last_touched |-> OptionalIso(t.last_touched)]

Theme_from_dict(data) ==
    [id |-> data.id, name |-> data.name, status |-> Member("ThemeStatus", data.status),
     notes |-> data.notes,
     tasks |-> [i \in 1..Len(data.tasks) |-> Task_from_dict(data.tasks[i])],
     last_touched |-> OptionalDatetime(data.last_touched)]

Project_to_dict(p) ==
    [id |-> p.id, name |-> p.name, team |-> p.team, folder_path |-> p.folder_path,
     privacy |-> p.privacy.value,
     themes |-> [i \in 1..Len(p.themes) |-> Theme_to_dict(p.themes[i])]]

Project_from_dict(data) ==
    [id |-> data.id, name |-> data.name, team |-> data.team,
     folder_path |-> data.folder_path, privacy |-> Member("Privacy", data.privacy),
     themes |-> [i \in 1..Len(data.themes) |-> Theme_from_dict(data.themes[i])]]

ProposedChange_to_dict(c) ==
    [id |-> c.id, change_type |-> c.change_type, description |-> c.description,
     details |-> c.details, created_at |-> isoformat(c.created_at),
     approved |-> c.approved]

\* from_dict with `approved=data.get("approved") or None`
ProposedChange_from_dict_truthy(data) ==
    [id |-> data.id, change_type |-> data.change_type, description |-> data.description,
     details |-> data.details, created_at |-> fromisoformat(data.created_at),
     approved |-> IF data.approved = Approved THEN Approved ELSE Pending]

\* created_at is datetime.now() when the dict has none; to_dict always writes one
ProposedChange_from_dict(data) ==
    [id |-> data.id, change_type |-> data.change_type, description |-> data.description,
     details |-> data.details, created_at |-> fromisoformat(data.created_at),
     approved |-> data.approved]

Roadmap_to_dict(r) ==
    [version |-> r.version, last_updated |-> OptionalIso(r.last_updated),
     projects |-> [i \in 1..Len(r.projects) |-> Project_to_dict(r.projects[i])],
     pending_changes |->
        [i \in 1..Len(r.pending_changes) |-> ProposedChange_to_dict(r.pending_changes[i])]]

Roadmap_from_dict(data) ==
    [version |-> data.version, last_updated |-> OptionalDatetime(data.last_updated),
     projects |-> [i \in 1..Len(data.projects) |-> Project_from_dict(data.projects[i])],
     pending_changes |->
        [i \in 1..Len(data.pending_changes) |->
            ProposedChange_from_dict(data.pending_changes[i])]]

---------------------------------------------------------------------------
(* agent/weekly_wins.py: analyze_activities_for_wins *)

\* what the analysis reads of an activity: source, raw_data['project'], the
\* timestamp (a number), the description, len(files_edited),
\* len(task_descriptions) and len(files_changed)
WinActivity(source, project, timestamp, description, files_edited, tasks, files_changed) ==
    [source |-> source, project |-> project, timestamp |-> timestamp,
     description |-> description, files_edited |-> files_edited, tasks |-> tasks,
     files_changed |-> files_changed]

\* the words of the vocabulary with a significant keyword as a substring
\* ('ship' in "shipped", 'fix' in "fixed"), and those with 'complete',
\* 'finish' or 'ship'
WinWords == {"shipped", "fixed"}

FinishingWords == {"shipped"}

Win(project, type, timestamp, confidence) ==
    [project |-> project, type |-> type, timestamp |-> timestamp, confidence |-> confidence]

\* the confidence of a win, in percent
SESSION_CONFIDENCE == 70

MILESTONE_CONFIDENCE == 80

EFFORT_CONFIDENCE == 60

\* the wins appended for one project with at least two activities
ProjectWins(project, project_activities) ==
    LET n == Len(project_activities)
        sessions == SelectIdx(n, 1, {i \in 1..n :
            /\ project_activities[i].source = "claude"
            /\ (project_activities[i].files_edited >= 5 \/ project_activities[i].tasks >= 3)})
        milestones == SelectIdx(n, 1, {i \in 1..n :
            /\ project_activities[i].source = "git"
            /\ Range(project_activities[i].description) \cap WinWords # {}
            /\ \/ project_activities[i].files_changed >= 3
               \/ Range(project_activities[i].description) \cap FinishingWords # {}})
        total_files == SumSeq([i \in 1..n |-> project_activities[i].files_edited
                                               + project_activities[i].files_changed])
        latest == CHOOSE t \in {project_activities[i].timestamp : i \in 1..n} :
                      \A i \in 1..n : project_activities[i].timestamp <= t
    IN [k \in 1..Len(sessions) |->
            Win(project, "significant_session", project_activities[sessions[k]].timestamp,
                SESSION_CONFIDENCE)]
       \o [k \in 1..Len(milestones) |->
            Win(project, "git_milestone", project_activities[milestones[k]].timestamp,
                MILESTONE_CONFIDENCE)]
       \o (IF total_files >= 10
           THEN <<Win(project, "sustained_effort", latest, EFFORT_CONFIDENCE)>>
           ELSE <<>>)

\* the loop over by_project.items(): projects in order of first occurrence,
\* those with fewer than two activities passed over
PotentialWins(activities) ==
    LET projects == KeysInOrder([i \in 1..Len(activities) |-> activities[i].project])
        Of(project) == SelectSeq(activities, LAMBDA a : a.project = project)
    IN Concat([k \in 1..Len(projects) |->
                  IF Len(Of(projects[k])) < 2 THEN <<>>
                  ELSE ProjectWins(projects[k], Of(projects[k]))])

\* the key (-confidence, timestamp) of a is greater than that of b
KeyGreater(a, b) ==
    \/ -a.confidence > -b.confidence
    \/ (a.confidence = b.confidence /\ a.timestamp > b.timestamp)

\* wins.sort(key=..., reverse=True): descending keys, equal keys in the order
\* they had (the sort is stable, also when reversed)
SortedReverse(wins) ==
    LET Place(i) == Cardinality({j \in 1..Len(wins) : KeyGreater(wins[j], wins[i])})
                    + Cardinality({j \in 1..(i - 1) : /\ ~KeyGreater(wins[i], wins[j])
                                                     /\ ~KeyGreater(wins[j], wins[i])})
                    + 1
    IN [k \in 1..Len(wins) |-> wins[CHOOSE i \in 1..Len(wins) : Place(i) = k]]

analyze_activities_for_wins(activities) == SortedReverse(PotentialWins(activities))

\* `for win in daily_wins[:5]` of the archived format_recap
DailyWinsShown(daily_wins) ==
    SubSeq(daily_wins, 1, IF Len(daily_wins) < 5 THEN Len(daily_wins) ELSE 5)

---------------------------------------------------------------------------
(* collectors/git.py: get_commits and collect_activities *)

\* what subprocess.run(cmd, timeout=30) of `git log` does: the exception it
\* raises ("None" when it returns), the exit code, the lines of stdout
Run(raises, returncode, stdout) ==
    [raises |-> raises, returncode |-> returncode, stdout |-> stdout]

\* a line of stdout: the number of parts line.split("|", 4) gives, whether the
\* fourth part without its last word is a %Y-%m-%d %H:%M:%S date, the subject
LogLine(parts, dated, subject) == [parts |-> parts, dated |-> dated, subject |-> subject]

\* what a call returns or raises; a raised exception leaves no value
Returned(value) == [raised |-> NoneV, value |-> value]
Raised(exception) == [raised |-> exception, value |-> <<>>]

RECURSIVE ParsedCommits(_, _)
\* the loop of get_commits over the lines: a line of other than five parts is
\* skipped, datetime.strptime raises ValueError on a date it cannot parse
ParsedCommits(lines, commits) ==
    IF lines = <<>> THEN Returned(commits)
    ELSE IF Head(lines).parts # 5 THEN ParsedCommits(Tail(lines), commits)
    ELSE IF ~Head(lines).dated THEN Raised("ValueError")
    ELSE ParsedCommits(Tail(lines), Append(commits, Head(lines).subject))

\* get_commits: `except (subprocess.TimeoutExpired, subprocess.SubprocessError)`
\* returns [], any other exception of subprocess.run goes on to the caller
get_commits(run) ==
    IF run.raises \in {"TimeoutExpired", "SubprocessError"} THEN Returned(<<>>)
    ELSE IF run.raises # NoneV THEN Raised(run.raises)
    ELSE IF run.returncode # 0 THEN Returned(<<>>)
    ELSE ParsedCommits(run.stdout, <<>>)

RECURSIVE GitCollected(_, _, _)
\* the loop of collect_activities over the repositories found, from the k-th:
\* an activity for each commit, [project_name] subject
GitCollected(runs, k, activities) ==
    IF k > Len(runs) THEN Returned(activities)
    ELSE IF get_commits(runs[k]).raised # NoneV THEN Raised(get_commits(runs[k]).raised)
    ELSE GitCollected(runs, k + 1,
            activities \o [i \in 1..Len(get_commits(runs[k]).value) |->
                              [repo |-> k, subject |-> get_commits(runs[k]).value[i]]])

\* collect_activities of collectors/git.py, before its sort by timestamp
git_collect_activities(runs) == GitCollected(runs, 1, <<>>)

---------------------------------------------------------------------------
(* collectors/filesystem.py: scan_directory and collect_activities *)

\* A file of the scan is named by what becomes of it: "stays"; "gone in scan",
\* os.path.getmtime of scan_directory already fails; "gone after scan", it is
\* yielded and then disappears, or its directory becomes unreadable;
\* "gone in build", it disappears between os.path.exists and os.path.getmtime
\* of collect_activities.

\* the files of a directory scan_directory yields: an OSError of getmtime is
\* passed over
Scanned(dir) == SelectSeq(dir, LAMBDA f : f # "gone in scan")

\* the activity of a directory with yielded files: latest_mtime is the max
\* over the files that os.path.exists finds, and max() of none raises
DirActivity(d, filenames) ==
    IF \E i \in 1..Len(filenames) : filenames[i] = "gone in build"
    THEN Raised("FileNotFoundError")
    ELSE IF \A i \in 1..Len(filenames) : filenames[i] # "stays"
    THEN Raised("ValueError")
    ELSE Returned([directory |-> d, files |-> Len(filenames)])

RECURSIVE DirActivities(_, _, _)
\* the loop over dirs_modified.items(), from the d-th directory on
DirActivities(dirs, d, activities) ==
    IF d > Len(dirs) THEN Returned(activities)
    ELSE IF Scanned(dirs[d]) = <<>> THEN DirActivities(dirs, d + 1, activities)
    ELSE IF DirActivity(d, Scanned(dirs[d])).raised # NoneV
    THEN DirActivity(d, Scanned(dirs[d]))
    ELSE DirActivities(dirs, d + 1,
                       Append(activities, DirActivity(d, Scanned(dirs[d])).value))

\* collect_activities of collectors/filesystem.py for the directories of one
\* project, before its sort by timestamp
filesystem_collect_activities(dirs) == DirActivities(dirs, 1, <<>>)

---------------------------------------------------------------------------
(* agent/nightly.py, collectors/git.py, models.py: the loaders *)

\* json.load(open(path)) of a file that is there with a document ("ok"), is
\* not there, cannot be opened, or holds no JSON document
LoadJson(state, document) ==
    CASE state = "ok" -> Returned(document)
      [] state = "missing" -> Raised("FileNotFoundError")
      [] state = "denied" -> Raised("PermissionError")
      [] OTHER -> Raised("JSONDecodeError")

\* the second of two calls, unless the first raised
Then(first, second) == IF first.raised # NoneV THEN first ELSE second

\* load_config of agent/nightly.py and of the collectors: settings.json, then
\* projects.json; the value is the project list
load_config(fs) ==
    Then(LoadJson(fs.settings, <<"settings">>), LoadJson(fs.projects, <<"Billing">>))

\* Roadmap.load
Roadmap_load(fs) == LoadJson(fs.roadmap, <<"Billing">>)

\* load_todays_activities: [] without a file of today
load_todays_activities(fs) ==
    IF fs.activities = "missing" THEN Returned(<<>>)
    ELSE LoadJson(fs.activities, <<"logged">>)

\* what run_recap has loaded when it comes to categorize_activities:
\* load_config, load_roadmap, the load_config of the collectors, and
\* load_todays_activities
Loads(config, rm, activities) ==
    IF Then(config, Then(rm, activities)).raised # NoneV
    THEN Raised(Then(config, Then(rm, activities)).raised)
    ELSE Returned([projects |-> config.value, roadmap |-> rm.value,
                   activities |-> activities.value])

run_recap_loads(fs) ==
    Loads(load_config(fs), Roadmap_load(fs), load_todays_activities(fs))

---------------------------------------------------------------------------
(* models.py Roadmap.save and Roadmap.load, collectors/filesystem.py *)

RECURSIVE filesystem_save_activities(_, _)
\* save_activities of collectors/filesystem.py: an activity is appended unless
\* its (description, timestamp) is in the file or was appended before it
filesystem_save_activities(existing, acts) ==
    IF acts = <<>> THEN existing
    ELSE filesystem_save_activities(
            IF \E k \in 1..Len(existing) :
                    /\ existing[k].description = Head(acts).description
                    /\ existing[k].timestamp = Head(acts).timestamp
            THEN existing ELSE Append(existing, Head(acts)),
            Tail(acts))

\* a file: what open(path, "w") and the writes of json.dump left of it, the
\* invocation that wrote to it last, and whether two invocations had it open
\* for writing at once since it was last truncated
File(exists, chunks, by, mixed) ==
    [exists |-> exists, chunks |-> chunks, by |-> by, mixed |-> mixed]

\* whether the file is there, and what is in it
Content(file) == [exists |-> file.exists, chunks |-> file.chunks]

\* one piece of a JSON document as json.dump hands it to f.write
Chunk(kind, value) == [kind |-> kind, value |-> value]

\* json.dump({..., first, second}, f, indent=2): the chunks of the document,
\* taken as two writes, up to the end of `first` and from there to the end
Dump(first, second) == <<Chunk("head", <<first>>), Chunk("tail", <<second>>)>>

\* json.load(f) succeeds: the file holds one whole document
Complete(chunks) ==
    /\ Len(chunks) = Len(Dump(<<>>, <<>>))
    /\ \A i \in 1..Len(chunks) : chunks[i].kind = Dump(<<>>, <<>>)[i].kind

\* f.write(chunk) at the offset `at` of the writer; a write beyond the end of
\* the file leaves a hole before it
Put(chunks, at, chunk) ==
    [i \in 1..(IF at > Len(chunks) THEN at ELSE Len(chunks)) |->
        IF i = at THEN chunk
        ELSE IF i <= Len(chunks) THEN chunks[i] ELSE Chunk("hole", <<>>)]

\* Roadmap.from_dict(json.load(f))
Loaded(chunks) ==
    [projects |-> chunks[1].value[1], pending_changes |-> chunks[2].value[1]]

\* the file a command loads and rewrites
FileOf(cmd) == IF cmd = "collect" THEN "activities.json" ELSE "roadmap.json"

\* an invocation: its command, where it is, the object it holds, the chunks it
\* writes, the offset of its next write (0 before open), the file it truncated
Proc(cmd, pc, local, out, at, before) ==
    [cmd |-> cmd, pc |-> pc, local |-> local, out |-> out, at |-> at, before |-> before]

Idle == Proc("none", "idle", <<>>, <<>>, 0, <<>>)

\* the invocation once it has read its file and done its work in memory:
\* `review approve c1`, `manual theme add search`, the filesystem collector
AfterLoad(cmd, file, acts) ==
    IF cmd = "collect" THEN
        IF file.exists /\ ~Complete(file.chunks) THEN Proc(cmd, "failed", <<>>, <<>>, 0, <<>>)
        ELSE Proc(cmd, "loaded",
                  filesystem_save_activities(
                      IF file.exists THEN file.chunks[2].value[1] ELSE <<>>, acts),
                  <<>>, 0, <<>>)
    ELSE IF ~file.exists \/ ~Complete(file.chunks)
    THEN Proc(cmd, "failed", <<>>, <<>>, 0, <<>>)
    ELSE IF cmd = "theme_add" /\ Loaded(file.chunks).projects = <<>>
    THEN Proc(cmd, "done", Loaded(file.chunks), <<>>, 0, <<>>)
    ELSE IF cmd = "theme_add"
    THEN Proc(cmd, "loaded", ThemeAdded(Loaded(file.chunks), <<"search">>, PLANNED),
              <<>>, 0, <<>>)
    ELSE IF apply_change(Loaded(file.chunks), <<"c1">>).ok
    THEN Proc(cmd, "loaded", apply_change(Loaded(file.chunks), <<"c1">>).roadmap,
              <<>>, 0, <<>>)
    ELSE Proc(cmd, "done", Loaded(file.chunks), <<>>, 0, <<>>)

\* a save that leaves the file alone when its roadmap is no longer the one the
\* invocation loaded
ToWriteUnlessChanged(cmd, seen, local, current) ==
    IF cmd = "collect" THEN Dump("date", local)
    ELSE IF Complete(current.chunks) /\ current.chunks # seen.chunks THEN current.chunks
    ELSE Dump(local.projects, local.pending_changes)

\* the chunks of json.dump(self.to_dict(), f), whatever is in the file
ToWrite(cmd, seen, local, current) ==
    IF cmd = "collect" THEN Dump("date", local)
    ELSE Dump(local.projects, local.pending_changes)

---------------------------------------------------------------------------
(* _archive/nightly.py: save_daily_snapshot *)

\* `[-30:]`: the snapshots kept
KEEP == 30

DASH == -1

\* the characters of dt.strftime("%Y-%m-%d") for a four-digit year: a digit is
\* itself and "-", which sorts before every digit, is DASH
strftime(dt) ==
    <<dt.year \div 1000, (dt.year \div 100) % 10, (dt.year \div 10) % 10, dt.year % 10, DASH,
      dt.month \div 10, dt.month % 10, DASH, dt.day \div 10, dt.day % 10>>

\* a < b for two str: the first character that differs decides, a proper
\* prefix is smaller
StrLess(a, b) ==
    \/ \E i \in 1..Len(a) :
            /\ i <= Len(b)
            /\ a[i] < b[i]
            /\ \A j \in 1..(i - 1) : a[j] = b[j]
    \/ Len(a) < Len(b) /\ \A j \in 1..Len(a) : a[j] = b[j]

Snapshot(date, total_activities) ==
    [date |-> date, total_activities |-> total_activities]

\* [s for s in data["snapshots"] if s.get("date") != today]
WithoutDate(snapshots, date) ==
    SubBatch(snapshots, {i \in 1..Len(snapshots) : snapshots[i].date # date})

\* x put into the sorted `rest` at position n + 1
InsertedAt(rest, x, n) == SubSeq(rest, 1, n) \o <<x>> \o SubSeq(rest, n + 1, Len(rest))

\* x put into the sorted `rest` behind the entries whose date is not greater
Inserted(rest, x) ==
    InsertedAt(rest, x, Cardinality({i \in 1..Len(rest) : ~StrLess(x.date, rest[i].date)}))

RECURSIVE SortedByDate(_)
\* sorted(snapshots, key=lambda x: x["date"]), a stable sort
SortedByDate(snapshots) ==
    IF snapshots = <<>> THEN <<>>
    ELSE Inserted(SortedByDate(SubSeq(snapshots, 1, Len(snapshots) - 1)),
                  snapshots[Len(snapshots)])

\* snapshots[-k:]
LastOf(snapshots, k) ==
    IF Len(snapshots) <= k THEN snapshots
    ELSE SubSeq(snapshots, Len(snapshots) - k + 1, Len(snapshots))

\* save_daily_snapshot without the removal of today's snapshot
save_daily_snapshot_appending(snapshots, date, total_activities) ==
    LastOf(SortedByDate(Append(snapshots, Snapshot(date, total_activities))), KEEP)

\* the data["snapshots"] save_daily_snapshot writes
save_daily_snapshot(snapshots, date, total_activities) ==
    LastOf(SortedByDate(Append(WithoutDate(snapshots, date),
                               Snapshot(date, total_activities))), KEEP)

\* days of the month
DaysIn(year, month) ==
    IF month = 2
    THEN IF year % 4 = 0 /\ (year % 100 # 0 \/ year % 400 = 0) THEN 29 ELSE 28
    ELSE IF month \in {4, 6, 9, 11} THEN 30 ELSE 31

\* the date of the day after
Tomorrow(dt) ==
    IF dt.day < DaysIn(dt.year, dt.month) THEN [dt EXCEPT !.day = @ + 1]
    ELSE IF dt.month < 12 THEN [dt EXCEPT !.month = @ + 1, !.day = 1]
    ELSE [dt EXCEPT !.year = @ + 1, !.month = 1, !.day = 1]

---------------------------------------------------------------------------
(* Specification *)

\* no object converted, nothing else on disk
NoFiles ==
    /\ disk = <<>>
    /\ procs = <<>>
    /\ clock = <<>>
    /\ history = <<>>
    /\ call = <<>>
    /\ ret = <<>>

NothingElsewhere ==
    /\ obj = <<>>
    /\ doc = <<>>
    /\ loaded = <<>>
    /\ log = <<>>
    /\ NoFiles

\* data/roadmap.json as configured: two projects, one planned theme
Init ==
    /\ roadmap = [projects |-> << [name |-> "Billing", team |-> "TeamA",
                                   themes |-> <<Theme(<<"t1">>, <<"auth">>, PLANNED, "none")>>],
                                  [name |-> "Portal", team |-> "TeamB", themes |-> <<>>] >>,
                  pending_changes |-> <<>>]
    /\ last = [changed |-> {}, kept |-> {}]
    /\ batch = <<>>
    /\ match = <<>>
    /\ NothingElsewhere

\* the flags of _archive/auto_themes.py: none, or one of them
MainArgs ==
    {args \in [no_add : BOOLEAN, no_status : BOOLEAN, dry_run : BOOLEAN] :
        Cardinality({f \in {"no_add", "no_status", "dry_run"} : args[f]}) <= 1}

\* change ids a user may type: those of the roadmap and one that names nothing
TypedIds == {roadmap.pending_changes[i].id : i \in 1..Len(roadmap.pending_changes)}
            \cup {<<"zz">>}

\* theme arguments a user may type: ids, first words of names, and a miss
TypedThemes == {ThemeAt(roadmap, pos).id : pos \in ThemePositions(roadmap)}
               \cup {<<"zz">>}

\* cli/review.py
Review ==
    \/ cmd_list
    \/ cmd_approve_all
    \/ \E id \in TypedIds : cmd_approve(id)
    \/ cmd_reject_all
    \/ \E id \in TypedIds : cmd_reject(id)
    \/ cmd_clear

\* agent/nightly.py
Recap == \E c \in Collected, save \in BOOLEAN : run_recap(Concat(c), save)

\* the runs of the archived pipeline that call run_auto_themes:
\* _archive/nightly.py, auto_themes.py, generate.py
AutoThemes ==
    \/ \E c \in Collected, save \in BOOLEAN, auto \in BOOLEAN :
            archive_run_recap(Concat(c), save, auto)
    \/ \E c \in Collected, args \in MainArgs :
            auto_themes_main(Concat(c), args.no_add, args.no_status, args.dry_run)
    \/ \E c \in Collected, week \in 0..MaxBatch, today \in 0..MaxBatch :
            /\ today <= week /\ week <= Len(c)
            /\ generate_all_views(Concat(c), Len(Concat(SubSeq(c, 1, today))),
                                  Len(Concat(SubSeq(c, 1, week))))

\* _archive/discover_projects.py --approve
Discover == \E n \in 1..MaxChanges : discover_projects_approve(n)

AddTheme == \E name \in ManualNames, status \in ThemeStatus : cmd_theme_add(name, status)

AddTask == \E arg \in TypedThemes : cmd_task_add(arg)

\* the roadmap file under the review CLI, manual themes, the recap and the
\* archived pipeline
Next == Review \/ AddTheme \/ Recap \/ AutoThemes \/ Discover \/ DaysPass

Spec == Init /\ [][Next]_vars

\* the roadmap file under the commands of cli/ and the recap of agent/
NextManual == Review \/ AddTheme \/ AddTask \/ Recap \/ DaysPass

SpecManual == Init /\ [][NextManual]_vars

\* the roadmap file under the operations that create themes and tasks:
\* `manual theme add`, `manual task add` and the runs that add detected themes
NextCreate == AddTheme \/ AddTask \/ AutoThemes

SpecCreate == Init /\ [][NextCreate]_vars

---------------------------------------------------------------------------
(* Specification of the matcher *)

\* the roadmap with the themes of Init, with the theme that `manual theme add`
\* adds to Billing, and with the theme that run_auto_themes adds to Portal for
\* the "search export" activities
MatcherRoadmaps ==
    {[projects |-> << [name |-> "Billing", team |-> "TeamA",
                       themes |-> <<Theme(<<"t1">>, <<"auth">>, PLANNED, "none")>> \o added],
                      [name |-> "Portal", team |-> "TeamB", themes |-> themes] >>,
      pending_changes |-> <<>>]
     : added \in {<<>>, <<Theme(<<"m1">>, <<"search">>, PLANNED, "none")>>},
       themes \in {<<>>, <<Theme(<<"search", "export">>, <<"search", "export">>,
                                 ACTIVE, "recent")>>}}

\* what a collector knows of where an activity comes from
Origins ==
    {[source |-> "claude", channels |-> <<>>, branch |-> <<>>],
     [source |-> "slack", channels |-> <<"billing-team">>, branch |-> <<>>],
     [source |-> "slack", channels |-> <<"portal-team">>, branch |-> <<>>],
     [source |-> "git", channels |-> <<>>, branch |-> <<"billing">>]}

\* file paths of activities: none, in /b, in /p, in /p/b, in /P
FilePaths ==
    {<<>>, <<"/", "b", "/", "x">>, <<"/", "p", "/", "x">>,
     <<"/", "p", "/", "b", "/", "x">>, <<"/", "P", "/", "x">>}

\* the activities handed to the matcher
MatcherInputs ==
    {Activity(o.source, d, hint, NoId, pp, IF f = <<>> THEN <<>> ELSE <<f>>,
              o.channels, o.branch) :
        o \in Origins,
        d \in {<<"fixed">>, <<"billing">>, <<"search">>,
               <<"search", "billing", "invoices">>},
        hint \in {NoneV, "Billing", "Portal", "Unknown"},
        pp \in {<<>>, <<"/", "p", "/", "x">>},
        f \in FilePaths}

InitMatch ==
    /\ roadmap \in MatcherRoadmaps
    /\ last = [changed |-> {}, kept |-> {}]
    /\ batch = <<>>
    /\ match = <<>>
    /\ NothingElsewhere

\* the activities of the batches of several activities: one without signals,
\* one of Billing by path, keywords and hint, one of Portal by channel and hint
BatchInputs ==
    {Activity("claude", <<"fixed">>, NoneV, NoId, <<>>, <<>>, <<>>, <<>>),
     Activity("claude", <<"search", "billing", "invoices">>, "Billing", NoId, <<>>,
              << <<"/", "b", "/", "x">> >>, <<>>, <<>>),
     Activity("slack", <<"search">>, "Portal", NoId, <<>>, <<>>, <<"portal-team">>, <<>>)}

\* a collector delivers the first activity of a batch
Deliver(a) ==
    /\ batch = <<>>
    /\ batch' = <<a>>
    /\ match' = <<>>
    /\ UNCHANGED <<roadmap, last, elsewhere>>

\* a collector delivers one more activity
DeliverMore(a) ==
    /\ batch # <<>> /\ Len(batch) < MaxMatched /\ match = <<>>
    /\ batch[1] \in BatchInputs
    /\ batch' = Append(batch, a)
    /\ UNCHANGED <<roadmap, last, match, elsewhere>>

\* ActivityMatcher(projects_config, roadmap).match_activity(activity)
MatchActivity ==
    /\ batch # <<>> /\ match = <<>>
    /\ match' = <<[op |-> "match_activity", result |-> match_activity(roadmap, batch[1])]>>
    /\ UNCHANGED <<roadmap, last, batch, elsewhere>>

\* ActivityMatcher(projects_config, roadmap).categorize_batch(activities), a
\* first and a second time on the same list of activities
CategorizeBatch ==
    /\ batch # <<>>
    /\ match = <<>> \/ (Len(match) = 1 /\ match[1].op = "categorize_batch")
    /\ match' = Append(match, [op |-> "categorize_batch",
                               result |-> categorize_batch(roadmap, batch)])
    /\ batch' = Annotated(batch, MatchEach(roadmap, batch))
    /\ UNCHANGED <<roadmap, last, elsewhere>>

\* the process ends
MatcherExit ==
    /\ match # <<>>
    /\ batch' = <<>>
    /\ match' = <<>>
    /\ UNCHANGED <<roadmap, last, elsewhere>>

NextMatch ==
    \/ \E a \in MatcherInputs : Deliver(a)
    \/ \E a \in BatchInputs : DeliverMore(a)
    \/ MatchActivity
    \/ CategorizeBatch
    \/ MatcherExit

SpecMatch == InitMatch /\ [][NextMatch]_vars

---------------------------------------------------------------------------
(* Specification of the conversions of models.py *)

\* naive datetimes, with and without microseconds
Datetimes ==
    {[date |-> "2026-01-05", time |-> "09:30:00", microsecond |-> us] : us \in {0, 250000}}

Optional(values) == {<<>>} \cup {<<v>> : v \in values}

Activities ==
    {[source |-> Member("ActivitySource", "git"), timestamp |-> dt,
      description |-> <<"fixed">>, confidence |-> Float(100),
      raw_data |-> [branch |-> <<"billing">>], project_path |-> <<>>] : dt \in Datetimes}

Tasks ==
    {[id |-> <<"k1">>, description |-> <<"api">>, status |-> Member("TaskStatus", st),
      last_touched |-> lt, artifacts |-> <<>>, activities |-> acts] :
        st \in {"todo", "in_progress", "done"},
        lt \in Optional(Datetimes),
        acts \in {<<>>} \cup {<<a>> : a \in Activities}}

Themes ==
    {[id |-> <<"t1">>, name |-> <<"auth">>, status |-> Member("ThemeStatus", st),
      notes |-> "", tasks |-> ts, last_touched |-> lt] :
        st \in ThemeStatus,
        ts \in {<<>>} \cup {<<t>> : t \in Tasks},
        lt \in Optional({dt \in Datetimes : dt.microsecond # 0})}

ProposedChanges ==
    {[id |-> <<"c1">>, change_type |-> "status_change", description |-> <<"auth", "shipped">>,
      details |-> [theme_id |-> <<"t1">>, new_status |-> COMPLETE, project |-> "Billing"],
      created_at |-> dt, approved |-> ap] :
        dt \in {dt \in Datetimes : dt.microsecond # 0},
        ap \in {Pending, Approved, Rejected}}

Roadmaps ==
    {[version |-> "1.0", last_updated |-> lu,
      projects |-> << [id |-> "billing", name |-> "Billing", team |-> "TeamA",
                       folder_path |-> <<"/", "b">>, privacy |-> Member("Privacy", pv),
                       themes |-> ths] >>,
      pending_changes |-> pcs] :
        lu \in Optional({dt \in Datetimes : dt.microsecond = 0}),
        pv \in {"public", "private"},
        ths \in {<<>>} \cup {<<t>> : t \in Themes},
        pcs \in {<<>>} \cup {<<c>> : c \in ProposedChanges}}

InitCodec ==
    /\ roadmap = [projects |-> <<>>, pending_changes |-> <<>>]
    /\ last = [changed |-> {}, kept |-> {}]
    /\ batch = <<>>
    /\ match = <<>>
    /\ obj \in Roadmaps
    /\ doc = <<>>
    /\ loaded = <<>>
    /\ log = <<>>
    /\ NoFiles

\* obj.to_dict()
ToDict ==
    /\ doc = <<>>
    /\ doc' = <<Roadmap_to_dict(obj)>>
    /\ UNCHANGED <<core, obj, loaded, log, files>>

\* Roadmap.from_dict(doc)
FromDict ==
    /\ doc # <<>> /\ loaded = <<>>
    /\ loaded' = <<Roadmap_from_dict(doc[1])>>
    /\ UNCHANGED <<core, obj, doc, log, files>>

NextCodec == ToDict \/ FromDict

SpecCodec == InitCodec /\ [][NextCodec]_vars

---------------------------------------------------------------------------
(* Specification of the daily activity log *)

\* what the collectors and `manual log` hand over: the same description in the
\* same and in the next minute, commits with and without their hash
ClaudeActivities ==
    {Logged("claude", <<"fixed">>, m, sec, NoneV) : m \in {1, 2}, sec \in {0, 30}}

GitActivities == {Logged("git", <<"fixed">>, 1, 0, h) : h \in {"h1", "h2", NoneV}}

ManualActivities == {Logged("manual", <<"fixed">>, m, 0, NoneV) : m \in {1, 2}}

FilesystemActivities == {Logged("filesystem", <<"fixed">>, m, 0, NoneV) : m \in {1, 2}}

\* the lists of one to MaxSaved activities of a collector
Lists(activities) == UNION {[1..n -> activities] : n \in 1..MaxSaved}

InitLog ==
    /\ roadmap = [projects |-> <<>>, pending_changes |-> <<>>]
    /\ last = [changed |-> {}, kept |-> {}]
    /\ batch = <<>>
    /\ match = <<>>
    /\ obj = <<>>
    /\ doc = <<>>
    /\ loaded = <<>>
    /\ log = <<>>
    /\ NoFiles

\* main of collectors/claude.py
ClaudeSave(acts) ==
    /\ Len(log) + Len(acts) <= MaxLog
    /\ log' = claude_save_activities(log, acts)
    /\ UNCHANGED <<core, obj, doc, loaded, files>>

\* main of collectors/git.py
GitSave(acts) ==
    /\ Len(log) + Len(acts) <= MaxLog
    /\ log' = git_save_activities(log, acts)
    /\ UNCHANGED <<core, obj, doc, loaded, files>>

\* cmd_log of cli/manual.py
ManualLog(activity) ==
    /\ Len(log) < MaxLog
    /\ log' = save_activity(log, activity)
    /\ UNCHANGED <<core, obj, doc, loaded, files>>

\* main of collectors/filesystem.py
FilesystemSave(acts) ==
    /\ Len(log) + Len(acts) <= MaxLog
    /\ log' = filesystem_save_activities(log, acts)
    /\ UNCHANGED <<core, obj, doc, loaded, files>>

NextLog ==
    \/ \E acts \in Lists(ClaudeActivities) : ClaudeSave(acts)
    \/ \E acts \in Lists(GitActivities) : GitSave(acts)
    \/ \E activity \in ManualActivities : ManualLog(activity)
    \/ \E acts \in Lists(FilesystemActivities) : FilesystemSave(acts)

SpecLog == InitLog /\ [][NextLog]_vars

---------------------------------------------------------------------------
(* Specification of the invocations that rewrite the JSON files *)

Invocations == {1, 2}

\* the commands started from the first terminal and from the second
Commands(p) == IF p = 1 THEN {"approve", "collect"} ELSE {"theme_add", "collect"}

\* what the filesystem collector found
Found == {<<Logged("filesystem", <<"fixed">>, 1, 0, NoneV)>>}

\* roadmap.json with one planned theme and one pending status change, no
\* activity log for today
InitSave ==
    /\ roadmap = [projects |-> <<>>, pending_changes |-> <<>>]
    /\ last = [changed |-> {}, kept |-> {}]
    /\ batch = <<>>
    /\ match = <<>>
    /\ obj = <<>>
    /\ doc = <<>>
    /\ loaded = <<>>
    /\ log = <<>>
    /\ disk = [f \in {"roadmap.json", "activities.json"} |->
                IF f = "roadmap.json"
                THEN File(TRUE,
                          Dump(<< [name |-> "Billing", team |-> "TeamA",
                                   themes |-> <<Theme(<<"t1">>, <<"auth">>, PLANNED, "none")>>] >>,
                               <<ProposedChange(<<"c1">>, "status_change", <<"t1">>, ACTIVE,
                                                "Billing")>>),
                          0, FALSE)
                ELSE File(FALSE, <<>>, 0, FALSE)]
    /\ procs = [p \in Invocations |-> Idle]
    /\ clock = <<>>
    /\ history = <<>>
    /\ call = <<>>
    /\ ret = <<>>

\* load_roadmap() and the command's work on the object, or the load and merge
\* of save_activities
Begin(p, cmd, acts) ==
    /\ procs[p].pc = "idle"
    /\ cmd = "theme_add" /\ Complete(disk[FileOf(cmd)].chunks)
            => NumThemes(Loaded(disk[FileOf(cmd)].chunks)) < MaxThemes
    /\ cmd = "collect" /\ Complete(disk[FileOf(cmd)].chunks)
            => Len(disk[FileOf(cmd)].chunks[2].value[1]) < MaxLog
    /\ procs' = [procs EXCEPT ![p] =
            [AfterLoad(cmd, disk[FileOf(cmd)], acts) EXCEPT
                !.before = Content(disk[FileOf(cmd)])]]
    /\ UNCHANGED <<core, obj, doc, loaded, log, disk, clock, history, call, ret>>

\* open(path, "w"): the file is truncated; then self.to_dict()
Open(p) ==
    /\ procs[p].pc = "loaded"
    /\ procs' = [procs EXCEPT ![p] =
            Proc(@.cmd, "writing", @.local,
                 ToWrite(@.cmd, @.before, @.local, Content(disk[FileOf(@.cmd)])), 1,
                 Content(disk[FileOf(@.cmd)]))]
    /\ disk' = [disk EXCEPT ![FileOf(procs[p].cmd)] =
            File(TRUE, <<>>, p,
                 \E q \in Invocations \ {p} :
                    procs[q].pc = "writing" /\ FileOf(procs[q].cmd) = FileOf(procs[p].cmd))]
    /\ UNCHANGED <<core, obj, doc, loaded, log, clock, history, call, ret>>

\* one chunk of json.dump reaches the file; the file is closed after the last
Write(p) ==
    /\ procs[p].pc = "writing"
    /\ procs' = [procs EXCEPT ![p].at = @ + 1,
                              ![p].pc = IF procs[p].at = Len(procs[p].out)
                                        THEN "done" ELSE "writing"]
    /\ disk' = [disk EXCEPT ![FileOf(procs[p].cmd)] =
            File(TRUE, Put(@.chunks, procs[p].at, procs[p].out[procs[p].at]), p, @.mixed)]
    /\ UNCHANGED <<core, obj, doc, loaded, log, clock, history, call, ret>>

\* the run is interrupted: the process is gone, the file stays as it is
Interrupt(p) ==
    /\ procs[p].pc \in {"loaded", "writing"}
    /\ procs' = [procs EXCEPT ![p].pc = "killed"]
    /\ UNCHANGED <<core, obj, doc, loaded, log, disk, clock, history, call, ret>>

\* the invocation is over
Exit(p) ==
    /\ procs[p].pc \in {"done", "failed", "killed"}
    /\ procs' = [procs EXCEPT ![p] = Idle]
    /\ UNCHANGED <<core, obj, doc, loaded, log, disk, clock, history, call, ret>>

NextSave ==
    \E p \in Invocations :
        \/ \E cmd \in Commands(p), acts \in Found : Begin(p, cmd, acts)
        \/ Open(p)
        \/ Write(p)
        \/ Interrupt(p)
        \/ Exit(p)

SpecSave == InitSave /\ [][NextSave]_vars

---------------------------------------------------------------------------
(* Specification of the snapshot history *)

\* no snapshot file yet, on 2025-12-15.  history.snapshots is data["snapshots"]
\* of the file; history.ran is, for every date a run saved a snapshot on, the
\* snapshot of its latest run.  clock.elapsed counts the days since the first.
InitSnapshots ==
    /\ roadmap = [projects |-> <<>>, pending_changes |-> <<>>]
    /\ last = [changed |-> {}, kept |-> {}]
    /\ batch = <<>>
    /\ match = <<>>
    /\ obj = <<>>
    /\ doc = <<>>
    /\ loaded = <<>>
    /\ log = <<>>
    /\ disk = <<>>
    /\ procs = <<>>
    /\ clock = [year |-> 2025, month |-> 12, day |-> 15, elapsed |-> 0]
    /\ history = [snapshots |-> <<>>, ran |-> {}]
    /\ call = <<>>
    /\ ret = <<>>

RanToday == \E r \in history.ran : r.date = strftime(clock)

\* run_recap(save=True) reaches save_daily_snapshot: the first run of a day
\* counts one activity, a later run of the same day two
SaveSnapshot(total_activities) ==
    /\ total_activities = (IF RanToday THEN 2 ELSE 1)
    /\ RanToday => /\ Snapshot(strftime(clock), 2) \notin history.ran
                   /\ Cardinality({r \in history.ran : r.total_activities = 2}) < MaxReruns
    /\ history' = [snapshots |-> save_daily_snapshot(history.snapshots, strftime(clock),
                                                      total_activities),
                    ran |-> {r \in history.ran : r.date # strftime(clock)}
                            \cup {Snapshot(strftime(clock), total_activities)}]
    /\ UNCHANGED <<core, obj, doc, loaded, log, disk, procs, clock, call, ret>>

\* midnight
NextDay ==
    /\ clock.elapsed < MaxDays
    /\ RanToday \/ clock.elapsed - Cardinality(history.ran) < MaxIdle
    /\ clock' = [Tomorrow(clock) EXCEPT !.elapsed = @ + 1]
    /\ UNCHANGED <<core, obj, doc, loaded, log, disk, procs, history, call, ret>>

NextSnapshots == (\E total_activities \in {1, 2} : SaveSnapshot(total_activities)) \/ NextDay

SpecSnapshots == InitSnapshots /\ [][NextSnapshots]_vars

---------------------------------------------------------------------------
(* Specification of the recap's report *)

\* the activities a recap may find: a session in Billing that names theme t1,
\* a session in Portal, a manual entry logged with a project
\* name the roadmap does not have (`manual log -p Sandbox`), one without project
RecapActivities ==
    { Activity("claude", <<"auth", "billing", "invoices">>, "Billing", <<"t1">>, <<"/", "b">>,
               << <<"/", "b", "/", "x">> >>, <<>>, <<>>),
      Activity("claude", <<"fixed">>, "Portal", NoId, <<"/", "p">>,
               << <<"/", "p", "/", "x">> >>, <<>>, <<>>),
      Activity("manual", <<"fixed">>, "Sandbox", NoId, <<>>, <<>>, <<>>, <<>>),
      Activity("manual", <<"fixed">>, NoneV, NoId, <<>>, <<>>, <<>>, <<>>) }

\* the roadmap of Init, Portal with its own team or with the team of Billing
RecapRoadmaps ==
    { [projects |-> << [name |-> "Billing", team |-> "TeamA",
                        themes |-> <<Theme(<<"t1">>, <<"auth">>, PLANNED, "none")>>],
                       [name |-> "Portal", team |-> team, themes |-> <<>>] >>,
       pending_changes |-> <<>>] : team \in {"TeamA", "TeamB"} }

InitReport ==
    /\ roadmap = [projects |-> <<>>, pending_changes |-> <<>>]
    /\ last = [changed |-> {}, kept |-> {}]
    /\ batch = <<>>
    /\ match = <<>>
    /\ obj = <<>>
    /\ doc = <<>>
    /\ loaded = <<>>
    /\ log = <<>>
    /\ disk = <<>>
    /\ procs = <<>>
    /\ clock = <<>>
    /\ history = <<>>
    /\ call \in {[activities |-> acts, roadmap |-> rm] :
                    acts \in UNION {[1..n -> RecapActivities] : n \in 0..MaxRecap},
                    rm \in RecapRoadmaps}
    /\ ret = <<>>

\* what run_recap has once format_recap returned
Reported(pipeline, categorized, changes, distribution, recap) ==
    [pipeline |-> pipeline, categorized |-> categorized, changes |-> changes,
     distribution |-> distribution, recap |-> recap]

AgentReported(categorized, changes, rm, distribution) ==
    Reported("agent", categorized, changes, distribution,
             format_recap(categorized, changes, rm, distribution))

ArchiveReported(categorized, avg_confidence, changes, rm, distribution) ==
    Reported("archive", categorized, changes, distribution,
             archive_format_recap(categorized, avg_confidence, changes, rm, distribution))

\* run_recap of agent/nightly.py from categorize_activities to format_recap
Report ==
    /\ ret = <<>>
    /\ ret' = << AgentReported(
                    categorize_activities(call.activities, call.roadmap),
                    generate_proposed_changes(
                        categorize_activities(call.activities, call.roadmap), call.roadmap),
                    call.roadmap,
                    calculate_team_distribution(
                        categorize_activities(call.activities, call.roadmap), call.roadmap)) >>
    /\ UNCHANGED <<core, obj, doc, loaded, log, disk, procs, clock, history, call>>

\* run_recap of _archive/nightly.py from categorize_activities to format_recap;
\* avg_confidence is the average the matcher put in the summary
ArchiveReport(avg_confidence) ==
    /\ ret = <<>>
    /\ ret' = << ArchiveReported(
                    categorize_batch(call.roadmap, call.activities), avg_confidence,
                    generate_proposed_changes(
                        categorize_batch(call.roadmap, call.activities), call.roadmap),
                    call.roadmap,
                    calculate_team_distribution(
                        categorize_batch(call.roadmap, call.activities), call.roadmap)) >>
    /\ UNCHANGED <<core, obj, doc, loaded, log, disk, procs, clock, history, call>>

NextReport == Report \/ \E avg_confidence \in {0, 55, 80} : ArchiveReport(avg_confidence)

SpecReport == InitReport /\ [][NextReport]_vars

---------------------------------------------------------------------------
(* Specification of the git collector *)

\* what `git log` may do in a repository: one commit, a line that is no commit
\* and a commit, a commit whose author name holds a "|" (the date is then
\* looked for in the e-mail part), a failure (exit code 128), a timeout, no git
\* executable to launch
GitRuns ==
    { Run(NoneV, 0, <<LogLine(5, TRUE, "fix")>>),
      Run(NoneV, 0, <<LogLine(3, FALSE, "warning"), LogLine(5, TRUE, "add")>>),
      Run(NoneV, 0, <<LogLine(5, FALSE, "a@b.c")>>),
      Run(NoneV, 128, <<>>),
      Run("TimeoutExpired", 0, <<>>),
      Run("FileNotFoundError", 0, <<>>) }

InitGit ==
    /\ roadmap = [projects |-> <<>>, pending_changes |-> <<>>]
    /\ last = [changed |-> {}, kept |-> {}]
    /\ batch = <<>>
    /\ match = <<>>
    /\ obj = <<>>
    /\ doc = <<>>
    /\ loaded = <<>>
    /\ log = <<>>
    /\ disk = <<>>
    /\ procs = <<>>
    /\ clock = <<>>
    /\ history = <<>>
    /\ call \in UNION {[1..n -> GitRuns] : n \in 0..MaxRepos}
    /\ ret = <<>>

\* collect_activities of collectors/git.py over the repositories
GitCollect ==
    /\ ret = <<>>
    /\ ret' = <<git_collect_activities(call)>>
    /\ UNCHANGED <<core, obj, doc, loaded, log, disk, procs, clock, history, call>>

NextGit == GitCollect

SpecGit == InitGit /\ [][NextGit]_vars

---------------------------------------------------------------------------
(* Specification of the loaders *)

FileStates == {"ok", "missing", "denied", "garbled"}

InitLoad ==
    /\ roadmap = [projects |-> <<>>, pending_changes |-> <<>>]
    /\ last = [changed |-> {}, kept |-> {}]
    /\ batch = <<>>
    /\ match = <<>>
    /\ obj = <<>>
    /\ doc = <<>>
    /\ loaded = <<>>
    /\ log = <<>>
    /\ disk = <<>>
    /\ procs = <<>>
    /\ clock = <<>>
    /\ history = <<>>
    /\ call \in [settings : FileStates, projects : FileStates, roadmap : FileStates,
                  activities : FileStates]
    /\ ret = <<>>

\* run_recap of agent/nightly.py up to categorize_activities
RecapLoad ==
    /\ ret = <<>>
    /\ ret' = <<[by |-> "run_recap", result |-> run_recap_loads(call)]>>
    /\ UNCHANGED <<core, obj, doc, loaded, log, disk, procs, clock, history, call>>

\* collect_activities of collectors/git.py up to the scan
CollectorLoad ==
    /\ ret = <<>>
    /\ ret' = <<[by |-> "collect_activities", result |-> load_config(call)]>>
    /\ UNCHANGED <<core, obj, doc, loaded, log, disk, procs, clock, history, call>>

NextLoad == RecapLoad \/ CollectorLoad

SpecLoad == InitLoad /\ [][NextLoad]_vars

---------------------------------------------------------------------------
(* Specification of the filesystem collector *)

Fates == {"stays", "gone in scan", "gone after scan", "gone in build"}

\* a directory: its recently modified files
ScanDirs == UNION {[1..n -> Fates] : n \in 1..MaxFiles}

InitScan ==
    /\ roadmap = [projects |-> <<>>, pending_changes |-> <<>>]
    /\ last = [changed |-> {}, kept |-> {}]
    /\ batch = <<>>
    /\ match = <<>>
    /\ obj = <<>>
    /\ doc = <<>>
    /\ loaded = <<>>
    /\ log = <<>>
    /\ disk = <<>>
    /\ procs = <<>>
    /\ clock = <<>>
    /\ history = <<>>
    /\ call \in UNION {[1..n -> ScanDirs] : n \in 0..MaxDirs}
    /\ ret = <<>>

\* collect_activities of collectors/filesystem.py
FilesystemCollect ==
    /\ ret = <<>>
    /\ ret' = <<filesystem_collect_activities(call)>>
    /\ UNCHANGED <<core, obj, doc, loaded, log, disk, procs, clock, history, call>>

NextScan == FilesystemCollect

SpecScan == InitScan /\ [][NextScan]_vars

---------------------------------------------------------------------------
(* Specification of repeated automatic status updates *)

\* activities the matcher filed under theme t1, under theme t2 or under none
StatusActivities ==
    {Activity("git", <<word>>, "Billing", theme_id, <<>>, <<>>, <<>>, <<>>) :
        word \in {"fixed", "shipped", "blocked"},
        theme_id \in {<<"t1">>, <<"t2">>, NoId}}

\* a roadmap with themes t1 and t2 in any status
StatusRoadmaps ==
    {[projects |-> << [name |-> "Billing", team |-> "TeamA",
                       themes |-> <<Theme(<<"t1">>, <<"auth">>, first, "none"),
                                    Theme(<<"t2">>, <<"search">>, second, "none")>>] >>,
      pending_changes |-> <<>>] : first \in ThemeStatus, second \in ThemeStatus}

InitStatus ==
    /\ roadmap = [projects |-> <<>>, pending_changes |-> <<>>]
    /\ last = [changed |-> {}, kept |-> {}]
    /\ batch = <<>>
    /\ match = <<>>
    /\ obj = <<>>
    /\ doc = <<>>
    /\ loaded = <<>>
    /\ log = <<>>
    /\ disk = <<>>
    /\ procs = <<>>
    /\ clock = <<>>
    /\ history = <<>>
    /\ call \in [activities : UNION {[1..n -> StatusActivities] : n \in 0..MaxMatched},
                  roadmap : StatusRoadmaps]
    /\ ret = <<>>

\* update_theme_statuses(activities, roadmap): on the given roadmap, then again
\* on the roadmap the run before left; ret lists the roadmaps after each run
UpdateStatuses ==
    /\ Len(ret) <= MaxReruns
    /\ ret' = Append(ret, update_theme_statuses(call.activities,
                            IF ret = <<>> THEN call.roadmap ELSE ret[Len(ret)]).roadmap)
    /\ UNCHANGED <<core, obj, doc, loaded, log, disk, procs, clock, history, call>>

NextStatus == UpdateStatuses

SpecStatus == InitStatus /\ [][NextStatus]_vars

---------------------------------------------------------------------------
(* Specification of the review CLI *)

\* the change stored at index i of a roadmap file under review: a status_change
\* for theme t1, a status_change whose theme_id names no theme, a new_project
\* of discover_projects.py (a type apply_change has no branch for), or a
\* stale_warning; pending, approved or rejected
ReviewChanges(i) ==
    {[c EXCEPT !.approved = approved] :
        c \in {ProposedChange(<<"c", i>>, "status_change", <<"t1">>, ACTIVE, "Billing"),
                ProposedChange(<<"c", i>>, "status_change", <<"t9">>, ACTIVE, "Billing"),
                ProposedChange(<<"c", i>>, "new_project", NoId, PLANNED, "Billing"),
                ProposedChange(<<"c", i>>, "stale_warning", <<"t1">>, PLANNED, "Billing")},
        approved \in {Pending, Approved, Rejected}}

ReviewRoadmaps ==
    {[projects |-> << [name |-> "Billing", team |-> "TeamA",
                       themes |-> <<Theme(<<"t1">>, <<"auth">>, PLANNED, "none")>>] >>,
      pending_changes |-> changes] :
        changes \in UNION {{cs \in [1..n -> UNION {ReviewChanges(i) : i \in 1..n}] :
                                \A i \in 1..n : cs[i] \in ReviewChanges(i)} :
                            n \in 0..MaxReview}}

InitReview ==
    /\ roadmap \in ReviewRoadmaps
    /\ last = [changed |-> {}, kept |-> {}]
    /\ batch = <<>>
    /\ match = <<>>
    /\ obj = <<>>
    /\ doc = <<>>
    /\ loaded = <<>>
    /\ log = <<>>
    /\ disk = <<>>
    /\ procs = <<>>
    /\ clock = <<>>
    /\ history = <<>>
    /\ call = <<>>
    /\ ret = <<>>

\* one invocation of cli/review.py: ret keeps the command line, the roadmap
\* it loaded, what apply_change or reject_change returned (TRUE for a command
\* that calls neither once) and whether save_roadmap was reached
Invoked(command, arg, ok, saved, file) ==
    /\ roadmap' = (IF saved THEN file ELSE roadmap)
    /\ ret' = <<[command |-> command, arg |-> arg, before |-> roadmap,
                 ok |-> ok, saved |-> saved]>>
    /\ last' = Ran({})
    /\ UNCHANGED <<batch, match, obj, doc, loaded, log, disk, procs, clock, history, call>>

\* review.py approve <id>
approve(change_id) ==
    Invoked("approve", change_id, apply_change(roadmap, change_id).ok,
            apply_change(roadmap, change_id).ok, apply_change(roadmap, change_id).roadmap)

\* review.py approve all
approve_all ==
    Invoked("approve", <<"all">>, TRUE, TRUE, ApplyEach(roadmap, PendingIds(roadmap)))

\* review.py reject <id>
reject(change_id) ==
    Invoked("reject", change_id, reject_change(roadmap, change_id).ok,
            reject_change(roadmap, change_id).ok, reject_change(roadmap, change_id).roadmap)

\* review.py reject all
reject_all ==
    Invoked("reject", <<"all">>, TRUE, TRUE, RejectEach(roadmap, PendingIds(roadmap)))

\* review.py clear
clear == Invoked("clear", <<>>, TRUE, TRUE, Cleared(roadmap))

NextReview ==
    \/ \E id \in TypedIds : approve(id)
    \/ approve_all
    \/ \E id \in TypedIds : reject(id)
    \/ reject_all
    \/ clear

SpecReview == InitReview /\ [][NextReview]_vars

---------------------------------------------------------------------------
(* Specification of the wins analysis *)

WeekActivities ==
    {WinActivity(kind[1], project, timestamp, kind[2], kind[3], kind[4], kind[5]) :
        kind \in {<<"claude", <<"auth">>, 5, 0, 0>>, <<"claude", <<"auth">>, 1, 3, 0>>,
                  <<"claude", <<"auth">>, 1, 0, 0>>, <<"git", <<"shipped">>, 0, 0, 0>>,
                  <<"git", <<"fixed">>, 0, 0, 3>>, <<"git", <<"api">>, 0, 0, 5>>},
        project \in {"Billing", "Portal"},
        timestamp \in 1..2}

InitWins ==
    /\ roadmap = [projects |-> <<>>, pending_changes |-> <<>>]
    /\ last = [changed |-> {}, kept |-> {}]
    /\ batch = <<>>
    /\ match = <<>>
    /\ obj = <<>>
    /\ doc = <<>>
    /\ loaded = <<>>
    /\ log = <<>>
    /\ disk = <<>>
    /\ procs = <<>>
    /\ clock = <<>>
    /\ history = <<>>
    /\ call \in UNION {[1..n -> WeekActivities] : n \in 0..MaxWeek}
    /\ ret = <<>>

\* daily_wins = analyze_activities_for_wins(activities) of the archived recap
AnalyzeWins ==
    /\ ret = <<>>
    /\ ret' = <<analyze_activities_for_wins(call)>>
    /\ UNCHANGED <<core, obj, doc, loaded, log, disk, procs, clock, history, call>>

NextWins == AnalyzeWins

SpecWins == InitWins /\ [][NextWins]_vars

---------------------------------------------------------------------------
(* Properties of the review workflow *)

\* the step is `approve all` or `approve <id>`
ApproveStep == cmd_approve_all \/ \E id \in TypedIds : cmd_approve(id)

\* the step is one of the four deciding commands of cli/review.py
DecideStep == ApproveStep \/ cmd_reject_all \/ \E id \in TypedIds : cmd_reject(id)

\* the step rewrites the status of the theme at pos
StatusRewritten(pos) == ThemeAt(roadmap', pos).status # ThemeAt(roadmap, pos).status

\* the step is an approval that leaves a status_change for the theme at pos
\* approved and the theme in the new_status of that change
ApprovedFor(pos) ==
    /\ ApproveStep
    /\ \E i \in 1..Len(roadmap.pending_changes) :
        /\ roadmap.pending_changes[i].change_type = "status_change"
        /\ roadmap.pending_changes[i].details.theme_id = ThemeAt(roadmap, pos).id
        /\ roadmap'.pending_changes[i].approved = Approved
        /\ ThemeAt(roadmap', pos).status = roadmap.pending_changes[i].details.new_status

\* the change stored at index i before the step is stored after it, with the
\* approval state it had
StateKept(i) ==
    \E j \in 1..Len(roadmap'.pending_changes) :
        /\ roadmap'.pending_changes[j].id = roadmap.pending_changes[i].id
        /\ roadmap'.pending_changes[j].approved = roadmap.pending_changes[i].approved

\* C1: once a change is approved or rejected, approve <id>, approve all,
\* reject <id> and reject all leave its approval state as it is.
C1_DecidedStaysDecided ==
    [][(\E i \in 1..Len(roadmap.pending_changes) :
            roadmap.pending_changes[i].approved # Pending /\ ~StateKept(i))
       => ~DecideStep]_vars

OtherCommand == Recap \/ Review \/ AddTheme \/ Discover \/ DaysPass

C3_CompleteStaysComplete ==
    [][\A pos \in ThemePositions(roadmap) :
          ThemeAt(roadmap, pos).status = COMPLETE /\ StatusRewritten(pos)
          => pos \notin last'.kept /\ ApprovedFor(pos)]_vars

\* a run has handed activities of a complete theme to update_theme_statuses
C3_Witness ==
    \E pos \in last.kept : ThemeAt(roadmap, pos).status = COMPLETE

\* the status transitions update_theme_statuses makes
AutoTransitions ==
    {<<PLANNED, ACTIVE>>, <<ACTIVE, COMPLETE>>, <<ACTIVE, BLOCKED>>, <<BLOCKED, ACTIVE>>}

ApprovableStatusChange(change_id) ==
    /\ FindChange(roadmap, change_id) # 0
    /\ roadmap.pending_changes[FindChange(roadmap, change_id)].approved = Pending
    /\ roadmap.pending_changes[FindChange(roadmap, change_id)].change_type = "status_change"
    /\ FindTheme(roadmap,
           roadmap.pending_changes[FindChange(roadmap, change_id)].details.theme_id) # <<0, 0>>

\* the saved roadmap has the change approved and its theme in new_status
AppliedInFile(change_id) ==
    LET change == roadmap.pending_changes[FindChange(roadmap, change_id)] IN
    /\ roadmap'.pending_changes[FindChange(roadmap, change_id)].id = change_id
    /\ roadmap'.pending_changes[FindChange(roadmap, change_id)].approved = Approved
    /\ ThemeAt(roadmap', FindTheme(roadmap, change.details.theme_id)).id
           = change.details.theme_id
    /\ ThemeAt(roadmap', FindTheme(roadmap, change.details.theme_id)).status
           = change.details.new_status

\* C5: approving a pending status_change that names a theme of the roadmap
\* leaves, in the saved roadmap, the theme in new_status and the change approved.
C5_ApproveAppliesStatusChange ==
    [][\A id \in TypedIds :
          ApprovableStatusChange(id) /\ (cmd_approve(id) \/ cmd_approve_all)
          => AppliedInFile(id)]_vars

\* an approval has just rewritten the status of a theme to the new_status of
\* an approved status_change
C5_Witness ==
    \E pos \in last.changed, i \in 1..Len(roadmap.pending_changes) :
        /\ roadmap.pending_changes[i].change_type = "status_change"
        /\ roadmap.pending_changes[i].approved = Approved
        /\ roadmap.pending_changes[i].details.theme_id = ThemeAt(roadmap, pos).id
        /\ roadmap.pending_changes[i].details.new_status = ThemeAt(roadmap, pos).status
        /\ ThemeAt(roadmap, pos).last_touched = "recent"

\* C6: a rejected change stays in pending_changes, rejected, under every
\* command but `clear`.
C6_RejectedStaysListed ==
    [][(\E i \in 1..Len(roadmap.pending_changes) :
            roadmap.pending_changes[i].approved = Rejected /\ ~StateKept(i))
       => cmd_clear]_vars

\* C7: `approve all` leaves no change of the roadmap pending.
C7_ApproveAllLeavesNonePending ==
    [][cmd_approve_all
       => \A j \in 1..Len(roadmap'.pending_changes) :
             roadmap'.pending_changes[j].approved # Pending]_vars

---------------------------------------------------------------------------
(* Properties of the matcher *)

\* the configured projects with one of the paths strictly under their root folder
RootsOver(paths) ==
    {i \in 1..Len(ProjectsConfig) :
        \E path \in paths :
            IsPrefix(Lower(ProjectsConfig[i].folder_path) \o <<"/">>, Lower(path))}

\* the paths the matcher reads of an activity
ReadPaths(a) == Range(paths_to_check(a))

\* the paths an activity carries: those, and raw_data.project_path
CarriedPaths(a) == ReadPaths(a) \cup ({a.raw_data.project_path} \ {<<>>})

\* match_activity has run on the activity of the batch
Matched == match # <<>> /\ match[1].op = "match_activity"

\* categorize_batch has run on the batch
Batched == match # <<>> /\ match[1].op = "categorize_batch"

\* C8: an activity with a path under the root folder of exactly one project is
\* matched to that project, whatever its other signals point to.
C8_PathUnderOneRootWins ==
    Matched /\ Cardinality(RootsOver(ReadPaths(batch[1]))) = 1
    => \A i \in RootsOver(ReadPaths(batch[1])) :
          match[1].result.project = ProjectsConfig[i].name

\* C9: an activity whose raw_data project hint is the name of a configured
\* project is matched to that project with confidence at least CONTEXT_WEIGHT.
C9_ExplicitHintWins ==
    Matched /\ (\E i \in 1..Len(ProjectsConfig) :
                   ProjectsConfig[i].name = batch[1].raw_data.project)
    => /\ match[1].result.project = batch[1].raw_data.project
       /\ AtLeast(match[1].result, Float(CONTEXT_WEIGHT))

\* the activity has no keyword, source or explicit signal, and a path under
\* the root folder of exactly one project
OnlyPathSignal(a) ==
    /\ Cardinality(RootsOver(CarriedPaths(a))) = 1
    /\ a.raw_data.project = NoneV
    /\ match_by_keywords(roadmap, a) = <<>>
    /\ ~match_by_source(a).hit

\* C10: an activity whose only signal is a path inside the folder of one
\* project is matched to it with confidence at least 0.6, and categorize_batch
\* files it under that project, not under uncategorized.
C10_PathOnlyIsFiled ==
    match # <<>> /\ Len(batch) = 1 /\ OnlyPathSignal(batch[1])
    => \A i \in RootsOver(CarriedPaths(batch[1])) :
          IF Matched
          THEN /\ match[1].result.project = ProjectsConfig[i].name
               /\ AtLeast(match[1].result, Float(60))
          ELSE /\ Get(match[1].result.by_project, ProjectsConfig[i].name) = batch
               /\ match[1].result.uncategorized = <<>>

\* the rank of the strongest signal among the additions to a project's score:
\* path, explicit hint, keyword, source hint
SignalRank(signal) ==
    CASE signal = "path" -> 1 [] signal = "explicit" -> 2
      [] signal = "keyword" -> 3 [] signal = "source" -> 4

StrongestRank(adds, project) ==
    LET ranks == {SignalRank(adds[k].signal) :
                    k \in {i \in 1..Len(adds) : adds[i].project = project}}
    IN CHOOSE r \in ranks : \A x \in ranks : r <= x

\* the candidates whose accumulated score equals the score of the best one
TiedWith(adds, project) ==
    {adds[k].project : k \in 1..Len(adds)}
        \cap {q \in {adds[k].project : k \in 1..Len(adds)} :
                ScoreOf(adds, q) = ScoreOf(adds, project)}

\* C11: when candidates have exactly equal accumulated scores, match_activity
\* returns the one supported by the strongest signal in the order path >
\* explicit hint > keyword > source hint.
C11_TieGoesToStrongestSignal ==
    Matched /\ match[1].result.project # NoneV =>
        \A q \in TiedWith(ScoreAdditions(roadmap, batch[1]), match[1].result.project) :
            StrongestRank(ScoreAdditions(roadmap, batch[1]), match[1].result.project)
                <= StrongestRank(ScoreAdditions(roadmap, batch[1]), q)

\* the number of times the activity a is in the list acts
Occurrences(a, acts) == Cardinality({i \in 1..Len(acts) : acts[i] = a})

\* the number of times the activity a is filed under a project
FiledTimes(a, by_project) ==
    SumSeq([k \in 1..Len(by_project) |-> Occurrences(a, by_project[k].items)])

\* match_activity places the activity: a project, and a confidence of 0.5 at least
Placed(a) ==
    /\ match_activity(roadmap, a).project # NoneV
    /\ ~Less(match_activity(roadmap, a).confidence, Float(50))

\* C12: categorize_batch files each activity in exactly one place: under its
\* best-scoring project when the score reaches 0.5, otherwise in uncategorized;
\* no activity below the threshold is under a project, and the sizes of the
\* project buckets and of uncategorized add up to total_activities.
C12_FiledInExactlyOnePlace ==
    Batched =>
        /\ \A i \in 1..Len(batch) :
              IF Placed(batch[i])
              THEN /\ Occurrences(batch[i], Get(match[1].result.by_project,
                                                match_activity(roadmap, batch[i]).project))
                        = Occurrences(batch[i], batch)
                   /\ FiledTimes(batch[i], match[1].result.by_project)
                        = Occurrences(batch[i], batch)
                   /\ Occurrences(batch[i], match[1].result.uncategorized) = 0
              ELSE /\ FiledTimes(batch[i], match[1].result.by_project) = 0
                   /\ Occurrences(batch[i], match[1].result.uncategorized)
                        = Occurrences(batch[i], batch)
        /\ SumSeq([k \in 1..Len(match[1].result.by_project) |->
                     Len(match[1].result.by_project[k].items)])
             + Len(match[1].result.uncategorized) = match[1].result.total_activities
        /\ match[1].result.total_activities = Len(batch)

\* a batch of two: one activity filed under a project, one left uncategorized
C12_Witness ==
    /\ Batched /\ Len(batch) = 2
    /\ Placed(batch[1]) /\ ~Placed(batch[2])
    /\ Get(match[1].result.by_project, "Billing") = <<batch[1]>>
    /\ match[1].result.uncategorized = <<batch[2]>>

\* the candidate projects of an activity: the keys of scores
Candidates(adds) == {adds[k].project : k \in 1..Len(adds)}

\* C13: match_activity returns the candidate project with the highest
\* accumulated weighted score over all signals, none when there is no
\* candidate, and the confidence it reports lies in [0, 1].
C13_HighestScoreClamped ==
    Matched =>
        /\ IF ScoreAdditions(roadmap, batch[1]) = <<>>
           THEN match[1].result.project = NoneV
           ELSE /\ match[1].result.project \in Candidates(ScoreAdditions(roadmap, batch[1]))
                /\ \A q \in Candidates(ScoreAdditions(roadmap, batch[1])) :
                      ~Less(ScoreOf(ScoreAdditions(roadmap, batch[1]), match[1].result.project),
                            ScoreOf(ScoreAdditions(roadmap, batch[1]), q))
        /\ ~Less(match[1].result.confidence, Float(0))
        /\ ~Less(Float(100), match[1].result.confidence)

\* two candidates; the score of the better one is above 1.0 and it is returned
\* with confidence 1.0
C13_Witness ==
    /\ Matched
    /\ match[1].result.project = "Billing"
    /\ match[1].result.confidence = Float(100)
    /\ Less(Float(100), ScoreOf(ScoreAdditions(roadmap, batch[1]), "Billing"))
    /\ Less(Float(0), ScoreOf(ScoreAdditions(roadmap, batch[1]), "Portal"))

\* the activity as the collector delivered it, without match annotations
Unannotated(a) ==
    [a EXCEPT !.raw_data.match_confidence = <<>>, !.raw_data.match_signals = <<>>]

\* categorize_batch runs for the second time on the same list of activities
SecondRun == Len(match) = 1 /\ Len(match') = 2

\* C14: a second run of categorize_batch on the same batch, with the same
\* roadmap and projects, gives every activity the project, theme and confidence
\* of the first run, although the first run wrote match_confidence and
\* match_signals into the activities.
C14_SecondRunAssignsTheSame ==
    [][SecondRun =>
        /\ match'[2].result = match[1].result
        /\ batch' = batch
        /\ \A i \in 1..Len(batch) :
              /\ batch[i].raw_data.match_confidence # <<>>
              /\ match_activity(roadmap, batch[i])
                   = match_activity(roadmap, Unannotated(batch[i]))]_vars

\* two runs on a batch of two annotated activities, one of them filed under a
\* project with its theme and one uncategorized
C14_Witness ==
    /\ Len(match) = 2 /\ Len(batch) = 2
    /\ batch[1].raw_data.match_signals # <<>>
    /\ match[2].result.by_project # <<>>
    /\ match[2].result.by_theme # <<>>
    /\ match[2].result.uncategorized # <<>>

\* C15: for every Roadmap r, Roadmap.from_dict(r.to_dict()) equals r: every
\* field of Project, Theme, Task and ProposedChange is preserved, the status
\* enums and the None / True / False of `approved` included.
C15_FromDictInvertsToDict ==
    loaded # <<>> => loaded[1] = obj

\* a roadmap with a complete theme, a done task with an activity, and a
\* rejected change has gone through to_dict and from_dict
C15_Witness ==
    /\ loaded # <<>>
    /\ doc[1].pending_changes # <<>> /\ doc[1].pending_changes[1].approved = Rejected
    /\ obj.projects[1].themes # <<>>
    /\ obj.projects[1].themes[1].status = Member("ThemeStatus", COMPLETE)
    /\ doc[1].projects[1].themes[1].status = COMPLETE
    /\ obj.projects[1].themes[1].tasks # <<>>
    /\ obj.projects[1].themes[1].tasks[1].status = Member("TaskStatus", "done")
    /\ obj.projects[1].themes[1].tasks[1].activities # <<>>
    /\ obj.projects[1].themes[1].tasks[1].last_touched = <<>>

\* C16: two activities with the same description, source and minute of their
\* timestamp leave one entry in the day's log, whether one of them was in the
\* log already or both came in one batch.
C16_OneEntryPerKey ==
    \A i, j \in 1..Len(log) : ClaudeKey(log[i]) = ClaudeKey(log[j]) => i = j

\* no value twice in a list
Distinct(ids) == \A i, j \in 1..Len(ids) : ids[i] = ids[j] => i = j

---------------------------------------------------------------------------
(* Properties of the saved files *)

\* the invocation p alone has written to its file since it truncated it
WroteAlone(p) ==
    /\ procs[p].at > 0
    /\ disk[FileOf(procs[p].cmd)].by = p
    /\ ~disk[FileOf(procs[p].cmd)].mixed

\* C18: when a run is interrupted while saving, the JSON file it was writing
\* (roadmap, daily activity log) holds its complete previous content or its
\* complete new content, never a partially written document.
C18_InterruptedSaveLeavesWholeFile ==
    \A p \in Invocations :
        procs[p].pc = "killed" /\ WroteAlone(p) =>
            \/ /\ disk[FileOf(procs[p].cmd)].exists = procs[p].before.exists
               /\ disk[FileOf(procs[p].cmd)].chunks = procs[p].before.chunks
            \/ disk[FileOf(procs[p].cmd)].chunks = procs[p].out

\* C19: of two overlapping invocations that load, mutate and rewrite the
\* roadmap, the one that saves last wins: the file is what it held in memory,
\* whatever the other one saved since it loaded, and nothing detects it.
C19_LastWriteWins ==
    \A p \in Invocations :
        procs[p].pc = "done" /\ WroteAlone(p) /\ procs[p].cmd # "collect" =>
            /\ Complete(disk["roadmap.json"].chunks)
            /\ Loaded(disk["roadmap.json"].chunks) = procs[p].local

\* `review approve c1` and `manual theme add` both ran to their end, one after
\* the other on the file, and the approval is missing from the roadmap on disk
C19_Witness ==
    /\ procs[1].cmd = "approve" /\ procs[1].pc = "done" /\ procs[1].at > 0
    /\ procs[2].cmd = "theme_add" /\ procs[2].pc = "done" /\ WroteAlone(2)
    /\ procs[1].local.pending_changes[1].approved = Approved
    /\ Complete(disk["roadmap.json"].chunks)
    /\ Loaded(disk["roadmap.json"].chunks).pending_changes[1].approved = Pending
    /\ Len(Loaded(disk["roadmap.json"].chunks).projects[1].themes) = 2

---------------------------------------------------------------------------
(* Properties of the snapshot history *)

\* the snapshots of the dates that fewer than KEEP saved dates come after
MostRecent(ran) ==
    {r \in ran : Cardinality({q \in ran : StrLess(r.date, q.date)}) < KEEP}

\* C20: after any sequence of daily snapshot saves the history holds at most
\* 30 entries, in ascending date order with no date twice, and they are the
\* latest snapshots of the most recent dates a run saved one on.
C20_HistoryIsLast30Dates ==
    /\ Len(history.snapshots) <= KEEP
    /\ \A i \in 1..(Len(history.snapshots) - 1) :
            StrLess(history.snapshots[i].date, history.snapshots[i + 1].date)
    /\ Range(history.snapshots) = MostRecent(history.ran)

\* more than 30 dates were saved, across the turn of the year, one of them
\* twice, and the history is full
C20_Witness ==
    /\ Cardinality(history.ran) > KEEP
    /\ Len(history.snapshots) = KEEP
    /\ \E i \in 1..Len(history.snapshots) : history.snapshots[i].total_activities = 2
    /\ history.snapshots[1].date[4] # history.snapshots[KEEP].date[4]
    /\ history.snapshots[KEEP].date = strftime(clock)

---------------------------------------------------------------------------
(* Properties of the recap's report *)

\* the activities filed in by_project under a project of the team
OfTeam(by_project, rm, team) ==
    SumSeq([k \in 1..Len(by_project) |->
        IF \E p \in 1..Len(rm.projects) :
                rm.projects[p].name = by_project[k].key /\ rm.projects[p].team = team
        THEN Len(by_project[k].items) ELSE 0])

\* the number of activities filed in by_project
FiledTotal(by_project) == SumSeq([k \in 1..Len(by_project) |-> Len(by_project[k].items)])

\* n is count * 100 / total rounded to an integer
IsRoundedShare(n, count, total) ==
    /\ 2 * (n * total - count * 100) <= total
    /\ 2 * (count * 100 - n * total) <= total

\* C21: calculate_team_distribution gives each team the number of classified
\* activities whose project belongs to the team, and as percentage that
\* count's integer-rounded share of all activities filed in by_project.
C21_TeamShareOfClassified ==
    ret # <<>> =>
        \A k \in 1..Len(ret[1].distribution) :
            /\ ret[1].distribution[k].count =
                    OfTeam(ret[1].categorized.by_project, call.roadmap,
                           ret[1].distribution[k].team)
            /\ IsRoundedShare(ret[1].distribution[k].percentage,
                              ret[1].distribution[k].count,
                              FiledTotal(ret[1].categorized.by_project))

\* C22: whenever more than 25% of a batch's activities are uncategorized, the
\* recap has a line that warns of the high uncategorized rate.
C22_HighUncategorizedWarned ==
    ret # <<>> /\ 4 * Len(ret[1].categorized.uncategorized)
                    > ret[1].categorized.total_activities =>
        \E i \in 1..Len(ret[1].recap) : ret[1].recap[i].kind = "high uncategorized"

---------------------------------------------------------------------------
(* Properties of the collectors *)

\* `git log` failed in the repository: exit code, timeout, no launch, or a
\* line that cannot be parsed as a commit
GitFailed(run) ==
    \/ run.raises # NoneV
    \/ run.returncode # 0
    \/ \E i \in 1..Len(run.stdout) : run.stdout[i].parts = 5 /\ ~run.stdout[i].dated

\* C23: when git log fails for a repository (non-zero exit, timeout, failure
\* to launch, unparsable output), no exception reaches the caller of the git
\* collector, the repository contributes no commit and the other repositories
\* contribute theirs.
C23_GitFailureIsNoCommits ==
    ret # <<>> =>
        /\ ret[1].raised = NoneV
        /\ \A k \in 1..Len(call) :
                IF GitFailed(call[k])
                THEN \A i \in 1..Len(ret[1].value) : ret[1].value[i].repo # k
                ELSE \E i \in 1..Len(ret[1].value) : ret[1].value[i].repo = k

\* C24: when the settings file, the projects config, the roadmap file or a
\* day's activity file is missing or unreadable, the loader yields an empty
\* default (empty project list, empty activity list) and the run goes on.
C24_MissingFileIsEmptyDefault ==
    ret # <<>> =>
        /\ ret[1].result.raised = NoneV
        /\ ret[1].by = "collect_activities" /\ call.projects # "ok" =>
                ret[1].result.value = <<>>
        /\ ret[1].by = "run_recap" =>
                /\ call.projects # "ok" => ret[1].result.value.projects = <<>>
                /\ call.roadmap # "ok" => ret[1].result.value.roadmap = <<>>
                /\ call.activities # "ok" => ret[1].result.value.activities = <<>>

\* C25: when a file the scan found disappears or becomes unreadable before
\* the activity of its directory is built, collect_activities does not raise
\* and still returns an activity for every directory with a file that stays.
C25_VanishedFileIsSkipped ==
    ret # <<>> =>
        /\ ret[1].raised = NoneV
        /\ \A d \in 1..Len(call) :
                (\E i \in 1..Len(call[d]) : call[d][i] = "stays") =>
                    \E k \in 1..Len(ret[1].value) : ret[1].value[k].directory = d

---------------------------------------------------------------------------
(* Properties of the automatic status update *)

\* the status of every theme of rm, in order
StatusesOf(rm) ==
    [p \in 1..Len(rm.projects) |->
        [t \in 1..Len(rm.projects[p].themes) |-> rm.projects[p].themes[t].status]]

---------------------------------------------------------------------------
(* Properties of the review CLI *)

\* C27: `clear` removes from pending_changes exactly the approved and the
\* rejected changes, keeps the pending ones in their order, and leaves the
\* projects with their themes and tasks as they were.
C27_ClearRemovesDecidedOnly ==
    (ret # <<>> /\ ret[1].command = "clear") =>
        /\ roadmap.pending_changes =
               SelectSeq(ret[1].before.pending_changes, LAMBDA c : c.approved = Pending)
        /\ roadmap.projects = ret[1].before.projects

\* `clear` ran on a roadmap with a rejected change between two pending ones
C27_Witness ==
    /\ ret # <<>> /\ ret[1].command = "clear"
    /\ Len(ret[1].before.pending_changes) = 3
    /\ ret[1].before.pending_changes[1].approved = Pending
    /\ ret[1].before.pending_changes[2].approved = Rejected
    /\ ret[1].before.pending_changes[3].approved = Pending
    /\ Len(roadmap.pending_changes) = 2

---------------------------------------------------------------------------
(* Properties of the wins analysis *)

\* C28: analyze_activities_for_wins returns the wins ordered by confidence
\* from highest to lowest, so that the wins shown for the day (the first 5)
\* start with the most confident one.
C28_WinsByConfidenceDescending ==
    ret # <<>> =>
        /\ \A i, j \in 1..Len(ret[1]) : i < j => ret[1][i].confidence >= ret[1][j].confidence
        /\ \A k \in 1..Len(DailyWinsShown(ret[1])) :
               DailyWinsShown(ret[1])[1].confidence >= ret[1][k].confidence

\* change_id names no change of rm, a status_change whose theme_id matches no
\* theme, or a change of a type other than the three of apply_change
NothingToApply(rm, change_id) ==
    \/ FindChange(rm, change_id) = 0
    \/ LET change == rm.pending_changes[FindChange(rm, change_id)] IN
          \/ /\ change.change_type = "status_change"
             /\ FindTheme(rm, change.details.theme_id) = <<0, 0>>
          \/ change.change_type \notin {"status_change", "stale_warning",
                                        "new_theme_suggestion"}

\* C29: when `approve <id>` names no change, a status_change for a theme that
\* does not exist, or a change of a type the CLI does not handle, apply_change
\* reports failure, the roadmap file is not rewritten, and every approval
\* state and theme status is as it was.
C29_FailedApproveChangesNothing ==
    (/\ ret # <<>>
     /\ ret[1].command = "approve"
     /\ ret[1].arg # <<"all">>
     /\ NothingToApply(ret[1].before, ret[1].arg))
    => /\ ~ret[1].ok
       /\ ~ret[1].saved
       /\ roadmap = ret[1].before

\* `approve` named a pending status_change for a theme that does not exist, on
\* a roadmap that also holds a pending new_project
C29_Witness ==
    /\ ret # <<>>
    /\ ret[1].command = "approve"
    /\ FindChange(ret[1].before, ret[1].arg) # 0
    /\ LET change == ret[1].before.pending_changes[FindChange(ret[1].before, ret[1].arg)]
       IN /\ change.change_type = "status_change"
          /\ change.approved = Pending
          /\ FindTheme(ret[1].before, change.details.theme_id) = <<0, 0>>
    /\ \E i \in 1..Len(roadmap.pending_changes) :
          /\ roadmap.pending_changes[i].change_type = "new_project"
          /\ roadmap.pending_changes[i].approved = Pending

---------------------------------------------------------------------------
(* Properties of the saves into the daily log *)

\* C30: every save into the day's log, by the save_activities of a collector
\* or by `manual log`, keeps the entries of the log as they are and in their
\* order: the log before the save is a prefix of the log after it.
C30_SaveExtendsLog ==
    [][/\ Len(log) <= Len(log')
       /\ SubSeq(log', 1, Len(log)) = log]_vars

\* saves of three sources have followed one another, the last of them manual
C30_Witness ==
    /\ Len(log) = 3
    /\ log[1].source = "filesystem"
    /\ log[2].source = "git"
    /\ log[3].source = "manual"

====
